---- MODULE Spec2Model ----
(***************************************************************************)
(* A model of the agent-chat server: the rate limiter                      *)
(* (server/src/config/rateLimiter.ts), the blocklist                       *)
(* (server/src/config/blocklist.ts), and the socket handlers of the entry  *)
(* point (connection, disconnect, the three send events, the admin block   *)
(* endpoints, the presence view).                                          *)
(*                                                                         *)
(* JavaScript strings are modelled as sequences of one-character strings,  *)
(* so that token.split("-")[0] and the truthiness of "" are computed.      *)
(* A JavaScript Map is a function with a finite domain.  An await is the   *)
(* boundary between two actions: the store operation awaited takes effect  *)
(* in the step that resumes the handler.                                   *)
(***************************************************************************)
EXTENDS Integers, Sequences, FiniteSets, Bags, TLC

VARIABLES
    now,                \* Date.now(), in milliseconds
    userMessageCounts,  \* rateLimiter.ts: userId -> messageType -> countData
    BLOCKED_USER_IDS,   \* blocklist.ts: the set of blocked user ids
    userSockets,        \* index.ts: userId -> socket
    socketUsers,        \* index.ts: socket.id -> userId
    sockets,            \* per socket: connection state, socket.data, rooms,
                        \* and the positions of its connection and
                        \* disconnect handlers
    dbUsers,            \* the store's users table: id -> row
    dbMessages,         \* the store's messages table, in insertion order
    sends,              \* send handlers awaiting the store's insert
    handled,            \* the event whose handler step ran last
    emitted,            \* the events that step emitted, in order
    ret,                \* the value returned by the last direct API call
    checks              \* history kept by the driver: attempts made, or what
                        \* each client was handed

(***************************************************************************)
(* Bounds of the model.                                                    *)
(***************************************************************************)
MaxWindows == 11        \* the clock runs over this many window lengths
MaxOffset == 1          \* clock readings k * windowMs + 0 .. MaxOffset
MaxExtra == 2           \* checks made after the first rejected one
NumConns == 2           \* sockets that connect during a behaviour
MaxSends == 2           \* send events handled during a behaviour

(***************************************************************************)
(* Strings.                                                                *)
(***************************************************************************)
EmptyString == << >>
Alice == <<"a", "l", "i", "c", "e">>
Bob == <<"b", "o", "b">>
Evil == <<"1", "4", "3", "8", "2", "1", "0", "3", "6", "5">>

UserIds == {EmptyString, Alice, Bob, Evil}

MessageTypes == {"direct", "global", "room"}

(***************************************************************************)
(* Maps.                                                                   *)
(***************************************************************************)
EmptyMap == [k \in {} |-> k]

MapSet(m, key, value) ==
    [k \in DOMAIN m \cup {key} |-> IF k = key THEN value ELSE m[k]]

MapDelete(m, key) == [k \in DOMAIN m \ {key} |-> m[k]]

(***************************************************************************)
(* The clock.  Readings lie on a grid around the window boundaries, so     *)
(* that "exactly windowMs later" and "one millisecond past it" both occur. *)
(***************************************************************************)
Times ==
    {w * 60000 + o : w \in 0..MaxWindows, o \in 0..MaxOffset}

\* Math.ceil(x / d) for x >= 0, d > 0
CeilDiv(x, d) == (x + d - 1) \div d

(***************************************************************************)
(* rateLimiter.ts                                                          *)
(***************************************************************************)
RATE_LIMITS ==
    [direct |-> [maxMessages |-> 15, windowMs |-> 60 * 1000,
                 blockDurationMs |-> 5 * 60 * 1000],
     global |-> [maxMessages |-> 10, windowMs |-> 60 * 1000,
                 blockDurationMs |-> 10 * 60 * 1000],
     room   |-> [maxMessages |-> 20, windowMs |-> 60 * 1000,
                 blockDurationMs |-> 5 * 60 * 1000]]

\* blockedUntil?: number.  Every read of the field is a truthiness test,
\* which undefined and 0 answer alike.
NoBlock == 0

\* userCounts.get(messageType), after the get-or-create of lines 46-60
CountDataOf(counts, userId, messageType, t) ==
    IF userId \in DOMAIN counts /\ messageType \in DOMAIN counts[userId]
    THEN counts[userId][messageType]
    ELSE [count |-> 0, windowStart |-> t, blockedUntil |-> NoBlock]

\* userCounts.set(messageType, countData), mutated: one counter per user,
\* shared by the classes
WithCountDataShared(counts, userId, messageType, countData) ==
    MapSet(counts, userId, [c \in MessageTypes |-> countData])

WithCountData(counts, userId, messageType, countData) ==
    MapSet(counts, userId,
           MapSet(IF userId \in DOMAIN counts THEN counts[userId] ELSE EmptyMap,
                  messageType, countData))

\* The limit test of line 78, mutated: > for >=
LimitExceededOffByOne(count, maxMessages) == count > maxMessages

\* line 78: countData.count >= limit.maxMessages
LimitExceeded(count, maxMessages) == count >= maxMessages

\* the cooldown test of line 63, mutated: never in cooldown
BlockedNowNever(countData, t) == FALSE

\* line 63: countData.blockedUntil && now < countData.blockedUntil
BlockedNow(countData, t) ==
    countData.blockedUntil # NoBlock /\ t < countData.blockedUntil

\* the window test of line 71, mutated: the window is never reset
WindowExpiredNever(t, windowStart, windowMs) == FALSE

\* the window test of line 71, mutated: >= for >
WindowExpiredInclusive(t, windowStart, windowMs) == t - windowStart >= windowMs

\* line 71: now - countData.windowStart > limit.windowMs
WindowExpired(t, windowStart, windowMs) == t - windowStart > windowMs

\* isRateLimited(userId, messageType) at time t: the value returned and the
\* counters it leaves.
isRateLimited(counts, userId, messageType, t) ==
    LET limit == RATE_LIMITS[messageType]
        countData == CountDataOf(counts, userId, messageType, t)
        blockedNow == BlockedNow(countData, t)
        expired == WindowExpired(t, countData.windowStart, limit.windowMs)
        afterReset ==
            IF expired
            THEN [count |-> 0, windowStart |-> t, blockedUntil |-> NoBlock]
            ELSE countData
    IN  IF blockedNow
        THEN [limited |-> TRUE,
              retryAfter |-> CeilDiv(countData.blockedUntil - t, 1000),
              counts |-> WithCountData(counts, userId, messageType, countData)]
        ELSE IF LimitExceeded(afterReset.count, limit.maxMessages)
        THEN [limited |-> TRUE,
              retryAfter |-> CeilDiv(limit.blockDurationMs, 1000),
              counts |-> WithCountData(counts, userId, messageType,
                            [afterReset EXCEPT
                                !.blockedUntil = t + limit.blockDurationMs])]
        ELSE [limited |-> FALSE,
              retryAfter |-> 0,
              counts |-> WithCountData(counts, userId, messageType, afterReset)]

\* incrementMessageCount, mutated: countData.count += 2
incrementMessageCountTwice(counts, userId, messageType) ==
    IF userId \in DOMAIN counts /\ messageType \in DOMAIN counts[userId]
    THEN [counts EXCEPT ![userId][messageType].count = @ + 2]
    ELSE counts

\* incrementMessageCount(userId, messageType)
incrementMessageCount(counts, userId, messageType) ==
    IF userId \in DOMAIN counts /\ messageType \in DOMAIN counts[userId]
    THEN [counts EXCEPT ![userId][messageType].count = @ + 1]
    ELSE counts

(***************************************************************************)
(* More strings: room ids, display names, tokens.                          *)
(***************************************************************************)
Global == <<"g", "l", "o", "b", "a", "l">>
Lobby == <<"l", "o", "b", "b", "y">>
Ann == <<"A", "n", "n">>
Secret == <<"0", "1", "2", "3", "4", "5", "6", "7", "8", "9">>

\* null / undefined where a string may stand: no character sequence equals it
Null == <<"null">>

\* the token a client of user userId presents: "<userId>-0123456789"
TokenOf(userId) == userId \o <<"-">> \o Secret

\* a token the middleware refuses: "bob-1"
ShortToken == <<"b", "o", "b", "-", "1">>

\* the truthiness of a string
Truthy(s) == s # EmptyString /\ s # Null

\* a || b
OrElse(a, b) == IF Truthy(a) THEN a ELSE b

(***************************************************************************)
(* blocklist.ts                                                            *)
(***************************************************************************)
InitialBlocklist == {Evil}

\* isUserBlocked, mutated: nobody is blocked
isUserBlockedNever(blocked, userId) == FALSE

isUserBlocked(blocked, userId) == userId \in blocked

blockUser(blocked, userId) == blocked \cup {userId}

\* unblockUser, mutated: the set is cleared
unblockUserAll(blocked, userId) == {}

unblockUser(blocked, userId) == blocked \ {userId}

(***************************************************************************)
(* index.ts: authentication helpers                                        *)
(***************************************************************************)
isValidToken(token) == Truthy(token) /\ Len(token) > 10

\* token.split("-")[0]
RECURSIVE extractUserId(_)
extractUserId(token) ==
    IF token = EmptyString \/ Head(token) = "-"
    THEN EmptyString
    ELSE <<Head(token)>> \o extractUserId(Tail(token))

findSocketByUserId(userId) ==
    IF userId \in DOMAIN userSockets THEN userSockets[userId] ELSE 0

(***************************************************************************)
(* Sockets.  A socket is unused, open, closing (the server has called      *)
(* disconnect(true) and the close has not happened yet: nothing more is    *)
(* read from or written to it) or closed.  conn and disc are the positions *)
(* of the socket's connection handler and of its disconnect handler.       *)
(***************************************************************************)
Conns == 1..NumConns

NoSocket ==
    [state |-> "unused", userId |-> EmptyString, username |-> EmptyString,
     rooms |-> {}, conn |-> "none", disc |-> "none",
     globalHistory |-> << >>]

IsOpen(c) == sockets[c].state = "open"

\* the listeners of lines 536-946 are installed when the connection handler
\* has passed its last await
ListenersInstalled(c) == sockets[c].conn = "ready"

\* socket.emit(ev, payload) on socket c; sent says whether the packet is
\* written (the connection is open)
Emit(c, payload) == [to |-> c, sent |-> IsOpen(c)] @@ payload

\* the sequence of e(c) for the sockets c of set S, by ascending id
RECURSIVE EmitToAll(_, _)
EmitToAll(S, payload) ==
    IF S = {} THEN << >>
    ELSE LET c == CHOOSE x \in S : \A y \in S : x <= y
         IN  <<Emit(c, payload)>> \o EmitToAll(S \ {c}, payload)

\* socket.broadcast.emit: every connected socket but c
BroadcastFrom(c, payload) ==
    EmitToAll({d \in Conns \ {c} : IsOpen(d)}, payload)

\* io.to(roomId).emit, mutated: io.emit, to every connected socket
ToRoomEveryone(roomId, payload) ==
    EmitToAll({d \in Conns : IsOpen(d)}, payload)

\* io.to(roomId).emit: every connected socket that joined roomId
ToRoom(roomId, payload) ==
    EmitToAll({d \in Conns : IsOpen(d) /\ roomId \in sockets[d].rooms},
              payload)

ErrorEvent(type, message) ==
    [ev |-> "error", type |-> type, message |-> message]

(***************************************************************************)
(* chatService.ts: the users table.  A row is [id, username, is_online];   *)
(* username is Null until an upsert provides one.                          *)
(***************************************************************************)
\* upsertUser(userId, isOnline, username)
upsertUser(users, userId, isOnline, username) ==
    MapSet(users, userId,
           [id |-> userId,
            username |-> IF Truthy(username) THEN username
                         ELSE IF userId \in DOMAIN users
                              THEN users[userId].username ELSE Null,
            is_online |-> isOnline])

\* setUserOffline(userId): an update, which creates no row
setUserOffline(users, userId) ==
    IF userId \in DOMAIN users
    THEN [users EXCEPT ![userId].is_online = FALSE]
    ELSE users

\* getAllUsers(): every row of the table
getAllUsers(users) == {users[id] : id \in DOMAIN users}

(***************************************************************************)
(* index.ts: getAugmentedUserLists.  The working map augmentedUsers is a   *)
(* function from id to [id, username, is_online]; the two lists are given  *)
(* as the sets of their {id, username} entries.                            *)
(***************************************************************************)
\* the registry entries of step 2, mutated: the registry is not consulted
LiveEntriesNone(userSocketsMap) == {}

\* the registry entries of step 2 that pass the defensive check
\* (!userId || !socketInstance || !socketInstance.data)
LiveEntries(userSocketsMap) == {u \in DOMAIN userSocketsMap : Truthy(u)}

\* lines 289-296, mutated: a persisted username is kept
LiveUsernameKeepPersisted(existingUsername, usernameFromSocket) ==
    existingUsername

\* lines 289-296: the username of an entry that is in the DB list and has a
\* socket is overwritten with the socket's when they differ
LiveUsername(existingUsername, usernameFromSocket) ==
    IF existingUsername # usernameFromSocket
    THEN usernameFromSocket ELSE existingUsername

getAugmentedUserLists(allUsersFromDB, userSocketsMap) ==
    LET valid == {r \in allUsersFromDB : Truthy(r.id)}
        fromDB ==
            [id \in {r.id : r \in valid} |->
                LET dbUser == CHOOSE r \in valid : r.id = id
                IN  [id |-> id, username |-> OrElse(dbUser.username, id),
                     is_online |-> FALSE]]
        live == LiveEntries(userSocketsMap)
        usernameFromSocket(userId) ==
            OrElse(sockets[userSocketsMap[userId]].username, userId)
        augmentedUsers ==
            [id \in DOMAIN fromDB \cup live |->
                IF id \in live
                THEN [id |-> id,
                      username |->
                        IF id \in DOMAIN fromDB
                        THEN LiveUsername(fromDB[id].username,
                                          usernameFromSocket(id))
                        ELSE usernameFromSocket(id),
                      is_online |-> TRUE]
                ELSE fromDB[id]]
        entry(u) == [id |-> u.id, username |-> OrElse(u.username, u.id)]
        finalUserList == {augmentedUsers[id] : id \in DOMAIN augmentedUsers}
    IN  [onlineUsers |-> {entry(u) : u \in {x \in finalUserList : x.is_online}},
         offlineUsers |->
            {entry(u) : u \in {x \in finalUserList : ~x.is_online}}]

(***************************************************************************)
(* The state after construction.                                           *)
(***************************************************************************)
limiterVars == <<now, userMessageCounts>>

registryVars == <<userSockets, socketUsers>>

storeVars == <<dbUsers, dbMessages>>

serverVars ==
    <<BLOCKED_USER_IDS, userSockets, socketUsers, sockets, dbUsers,
      dbMessages, sends, handled, emitted>>

vars ==
    <<now, userMessageCounts, BLOCKED_USER_IDS, userSockets, socketUsers,
      sockets, dbUsers, dbMessages, sends, handled, emitted, ret, checks>>

InitServer ==
    /\ userMessageCounts = EmptyMap
    /\ BLOCKED_USER_IDS = InitialBlocklist
    /\ userSockets = EmptyMap
    /\ socketUsers = EmptyMap
    /\ sockets = [c \in Conns |-> NoSocket]
    /\ dbUsers = EmptyMap
    /\ dbMessages = << >>
    /\ sends = EmptyBag
    /\ handled = [event |-> "none"]
    /\ emitted = << >>
    /\ ret = [op |-> "none"]
    /\ checks = 0

(***************************************************************************)
(* chatService.ts: the history queries.  A query selects rows of the       *)
(* messages table, orders them by created_at descending and keeps the      *)
(* first limit of them; rows of equal created_at come in any order.  The   *)
(* id of a row is its position in the table.  Each query is resumed with   *)
(* an outcome: "ok", "error1" (the first query of the direct history       *)
(* reported an error, the second did not), "error" (the query reported an  *)
(* error) or "throw" (the call raised).                                    *)
(***************************************************************************)
DirectHistoryLimit == 50

RoomHistoryLimit == 100

GlobalHistoryLimit == 100

Min(a, b) == IF a < b THEN a ELSE b

\* .order("created_at", { ascending: false }) over the rows numbered in S
NewestFirst(rows, S) ==
    {h \in [1..Cardinality(S) -> S] :
        /\ \A i, j \in DOMAIN h : i # j => h[i] # h[j]
        /\ \A i, j \in DOMAIN h :
                i < j => rows[h[i]].created_at >= rows[h[j]].created_at}

\* .limit(limit)
Limit(h, limit) == SubSeq(h, 1, Min(limit, Len(h)))

\* (msg.sender_id === userId1 && msg.recipient_id === userId2) || the reverse
Between(msg, userId1, userId2) ==
    \/ msg.sender_id = userId1 /\ msg.recipient_id = userId2
    \/ msg.sender_id = userId2 /\ msg.recipient_id = userId1

\* { ...msg, username: userData?.username || msg.sender_id } of row i
FormatRow(rows, users, i) ==
    [id |-> i,
     username |-> OrElse(IF rows[i].sender_id \in DOMAIN users
                         THEN users[rows[i].sender_id].username
                         ELSE Null,
                         rows[i].sender_id)] @@ rows[i]

FormatRows(rows, users, h) == [k \in DOMAIN h |-> FormatRow(rows, users, h[k])]

\* .map(...), mutated: the rows are handed over oldest first
FormattedReversed(rows, users, h) ==
    [k \in DOMAIN h |-> FormatRow(rows, users, h[Len(h) + 1 - k])]

\* data?.map(...) || []: the rows in the order of the query
Formatted(rows, users, h) == FormatRows(rows, users, h)

\* getDirectMessageHistory(userId1, userId2, limit): the values it can return
getDirectMessageHistory(rows, users, userId1, userId2, limit, outcome) ==
    CASE outcome = "ok" ->
            {Formatted(rows, users, Limit(h, limit)) :
                h \in NewestFirst(rows,
                        {i \in DOMAIN rows : Between(rows[i], userId1, userId2)})}
      [] outcome = "error1" ->
            {Formatted(rows, users,
                SelectSeq(Limit(h, limit),
                          LAMBDA i : Between(rows[i], userId1, userId2))) :
                h \in NewestFirst(rows,
                        {i \in DOMAIN rows :
                            /\ rows[i].sender_id \in {userId1, userId2}
                            /\ rows[i].recipient_id \in {userId1, userId2}
                            /\ rows[i].room_id = Null})}
      [] OTHER -> {<< >>}

\* getRoomMessageHistory(roomId, limit): the values it can return
getRoomMessageHistory(rows, users, roomId, limit, outcome) ==
    IF outcome = "ok"
    THEN {Formatted(rows, users, Limit(h, limit)) :
            h \in NewestFirst(rows,
                    {i \in DOMAIN rows : rows[i].room_id = roomId})}
    ELSE {<< >>}

\* getGlobalChatHistory(limit): the values it can return
getGlobalChatHistory(rows, users, limit, outcome) ==
    IF outcome = "ok"
    THEN {Formatted(rows, users, Limit(h, limit)) :
            h \in NewestFirst(rows,
                    {i \in DOMAIN rows : rows[i].room_id = Global})}
    ELSE {<< >>}

\* chatService.getGlobalChatHistory() as the connection handler calls it:
\* the values the query can return in the current state of the store
GlobalChatHistoryRead(outcome) ==
    getGlobalChatHistory(dbMessages, dbUsers, GlobalHistoryLimit, outcome)

(***************************************************************************)
(* index.ts: the authentication middleware and io.on("connection").        *)
(***************************************************************************)
\* lines 491-493: the registration, mutated: the maps are left alone when
\* the user is already mapped
RegisterKeepFirst(c, userId) ==
    /\ userSockets' =
            IF userId \in DOMAIN userSockets THEN userSockets
            ELSE MapSet(userSockets, userId, c)
    /\ socketUsers' = MapSet(socketUsers, c, userId)

\* lines 491-493: userSockets.set(userId, socket);
\*                socketUsers.set(socket.id, userId)
Register(c, userId) ==
    /\ userSockets' = MapSet(userSockets, userId, c)
    /\ socketUsers' = MapSet(socketUsers, c, userId)

\* A client connects socket c with handshake auth {token, username}: the
\* middleware, then the connection handler up to its first await.
Connect(c, token, username) ==
    /\ sockets[c].state = "unused"
    /\ \A d \in Conns : d < c => sockets[d].state # "unused"
    /\ handled' = [event |-> "connection", socket |-> c, at |-> "start"]
    /\ IF ~isValidToken(token)
       THEN \* next(new Error("Authentication error")): no connection
            /\ sockets' = [sockets EXCEPT ![c] =
                    [NoSocket EXCEPT !.state = "closed", !.conn = "refused"]]
            /\ emitted' = << >>
            /\ UNCHANGED registryVars
       ELSE LET userId == extractUserId(token)
                data == [NoSocket EXCEPT !.userId = userId,
                            !.username = OrElse(username, userId)]
            IN  IF isUserBlocked(BLOCKED_USER_IDS, userId)
                THEN /\ sockets' = [sockets EXCEPT ![c] =
                            [data EXCEPT !.state = "closing",
                                         !.conn = "rejected"]]
                     /\ emitted' =
                            <<[to |-> c, sent |-> TRUE] @@
                              ErrorEvent("blocked",
                                  "You are blocked from this service")>>
                     /\ UNCHANGED registryVars
                ELSE /\ sockets' = [sockets EXCEPT ![c] =
                            [data EXCEPT !.state = "open",
                                         !.conn = "upsert"]]
                     /\ Register(c, userId)
                     /\ emitted' = << >>
    /\ UNCHANGED <<limiterVars, BLOCKED_USER_IDS, storeVars, sends,
                   ret>>

\* await chatService.upsertUser(userId, true, username) returns (ok says
\* whether the store took the write); socket.join("global")
ConnectUpserted(c, ok) ==
    /\ sockets[c].conn = "upsert"
    /\ dbUsers' =
            IF ok THEN upsertUser(dbUsers, sockets[c].userId, TRUE,
                                  sockets[c].username)
            ELSE dbUsers
    /\ sockets' = [sockets EXCEPT
            ![c].conn = "fetch",
            ![c].rooms = IF IsOpen(c) THEN @ \cup {Global} ELSE @]
    /\ handled' = [event |-> "connection", socket |-> c, at |-> "upserted"]
    /\ emitted' = << >>
    /\ UNCHANGED <<limiterVars, BLOCKED_USER_IDS, registryVars, dbMessages,
                   sends, ret>>

\* await Promise.all([getGlobalChatHistory(), getAvailableRooms()]) returns,
\* the query of the history with outcome; the handler keeps the history in
\* its local globalHistory
ConnectFetchedWith(c, outcome) ==
    /\ sockets[c].conn = "fetch"
    /\ \E globalHistory \in GlobalChatHistoryRead(outcome) :
            sockets' = [sockets EXCEPT ![c].conn = "users",
                                       ![c].globalHistory = globalHistory]
    /\ handled' = [event |-> "connection", socket |-> c, at |-> "fetched"]
    /\ emitted' = << >>
    /\ UNCHANGED <<limiterVars, BLOCKED_USER_IDS, registryVars, storeVars,
                   sends, ret>>

\* the same, the store answering the query
ConnectFetched(c) == ConnectFetchedWith(c, "ok")

\* await getAugmentedUserLists(...) returns: initialData to the socket,
\* userJoined to the others, and the socket's listeners are installed
ConnectReady(c) ==
    /\ sockets[c].conn = "users"
    /\ LET lists == getAugmentedUserLists(getAllUsers(dbUsers), userSockets)
       IN  emitted' =
                <<Emit(c, [ev |-> "initialData",
                           globalHistory |-> sockets[c].globalHistory,
                           onlineUsers |-> lists.onlineUsers,
                           offlineUsers |-> lists.offlineUsers])>>
                \o BroadcastFrom(c,
                        [ev |-> "userJoined",
                         user |-> [id |-> sockets[c].userId,
                                   username |-> OrElse(sockets[c].username,
                                                       sockets[c].userId)]])
    /\ sockets' = [sockets EXCEPT ![c].conn = "ready",
                                   ![c].globalHistory = << >>]
    /\ handled' = [event |-> "connection", socket |-> c, at |-> "ready"]
    /\ UNCHANGED <<limiterVars, BLOCKED_USER_IDS, registryVars, storeVars,
                   sends, ret>>

(***************************************************************************)
(* index.ts: socket.on("disconnect").                                      *)
(***************************************************************************)
\* the listener, mutated: without the test if (userId)
OnDisconnectUnguarded(c) ==
    LET userId == IF c \in DOMAIN socketUsers THEN socketUsers[c] ELSE Null
    IN  /\ userSockets' = MapDelete(userSockets, userId)
        /\ socketUsers' = MapDelete(socketUsers, c)
        /\ sockets' = [sockets EXCEPT ![c].state = "closed",
                           ![c].rooms = {}, ![c].disc = "offline"]

\* the listener, up to its await: userId = socketUsers.get(socket.id);
\* if (userId) { both entries are deleted; setUserOffline is called }
OnDisconnect(c) ==
    LET userId == IF c \in DOMAIN socketUsers THEN socketUsers[c] ELSE Null
    IN  IF Truthy(userId)
        THEN /\ userSockets' = MapDelete(userSockets, userId)
             /\ socketUsers' = MapDelete(socketUsers, c)
             /\ sockets' = [sockets EXCEPT ![c].state = "closed",
                                ![c].rooms = {}, ![c].disc = "offline"]
        ELSE /\ UNCHANGED registryVars
             /\ sockets' = [sockets EXCEPT ![c].state = "closed",
                                ![c].rooms = {}, ![c].disc = "done"]

\* The connection of socket c closes (the client left, or a disconnect(true)
\* of the server takes effect): the socket leaves its rooms, and its
\* disconnect listener runs if it is installed.
Disconnect(c) ==
    /\ sockets[c].state \in {"open", "closing"}
    /\ IF ListenersInstalled(c)
       THEN OnDisconnect(c)
       ELSE /\ sockets' = [sockets EXCEPT ![c].state = "closed",
                                          ![c].rooms = {}]
            /\ UNCHANGED registryVars
    /\ handled' = [event |-> "disconnect", socket |-> c, at |-> "start",
                   known |-> c \in DOMAIN socketUsers,
                   listening |-> ListenersInstalled(c)]
    /\ emitted' = << >>
    /\ UNCHANGED <<limiterVars, BLOCKED_USER_IDS, storeVars, sends,
                   ret>>

\* await chatService.setUserOffline(userId) returns;
\* socket.broadcast.emit("userOffline", {userId})
DisconnectOffline(c, ok) ==
    /\ sockets[c].disc = "offline"
    /\ dbUsers' = IF ok THEN setUserOffline(dbUsers, sockets[c].userId)
                  ELSE dbUsers
    /\ sockets' = [sockets EXCEPT ![c].disc = "done"]
    /\ emitted' = BroadcastFrom(c, [ev |-> "userOffline",
                                    userId |-> sockets[c].userId])
    /\ handled' = [event |-> "disconnect", socket |-> c, at |-> "offline"]
    /\ UNCHANGED <<limiterVars, BLOCKED_USER_IDS, registryVars, dbMessages,
                   sends, ret>>

(***************************************************************************)
(* index.ts: the admin endpoints of the blocklist.                         *)
(***************************************************************************)
\* POST /admin/block/:userId
AdminBlock(userId) ==
    /\ BLOCKED_USER_IDS' = blockUser(BLOCKED_USER_IDS, userId)
    /\ LET userSocket == findSocketByUserId(userId)
       IN  IF userSocket # 0
           THEN /\ emitted' =
                    <<Emit(userSocket,
                           ErrorEvent("blocked",
                               "You have been blocked from this service"))>>
                /\ sockets' = [sockets EXCEPT ![userSocket].state =
                                    IF @ = "open" THEN "closing" ELSE @]
           ELSE /\ emitted' = << >>
                /\ UNCHANGED sockets
    /\ handled' = [event |-> "POST /admin/block", userId |-> userId]
    /\ UNCHANGED <<limiterVars, registryVars, storeVars, sends, ret>>

\* DELETE /admin/block/:userId
AdminUnblock(userId) ==
    /\ BLOCKED_USER_IDS' = unblockUser(BLOCKED_USER_IDS, userId)
    /\ handled' = [event |-> "DELETE /admin/block", userId |-> userId]
    /\ emitted' = << >>
    /\ UNCHANGED <<limiterVars, registryVars, sockets, storeVars, sends,
                   ret>>

(***************************************************************************)
(* index.ts: the send events directMessage, roomMessage, globalMessage.    *)
(* Each handler runs to its await of the store's insert, and is resumed    *)
(* with the insert's outcome: "saved" (a row), "error" (the insert         *)
(* reported an error and chatService returned null) or "throw" (the call   *)
(* raised).                                                                *)
(***************************************************************************)
SaveOutcomes == {"saved", "error", "throw"}

\* the blocklist test of the send handlers, mutated: never blocked
SenderBlockedNever(senderId) == FALSE

\* lines 583, 722, 801: isUserBlocked(senderId)
SenderBlocked(senderId) == isUserBlocked(BLOCKED_USER_IDS, senderId)

\* A send event of socket c is handled up to the await of the insert: the
\* blocklist check, then the rate check.
SendStart(c, event, messageType, target) ==
    /\ IsOpen(c)
    /\ ListenersInstalled(c)
    /\ LET senderId == sockets[c].userId
           rateLimitCheck ==
               isRateLimited(userMessageCounts, senderId, messageType, now)
       IN  IF SenderBlocked(senderId)
           THEN /\ emitted' =
                    <<Emit(c, ErrorEvent("blocked",
                                  "You are blocked from sending messages"))>>
                /\ UNCHANGED <<userMessageCounts, sends>>
           ELSE /\ userMessageCounts' = rateLimitCheck.counts
                /\ IF rateLimitCheck.limited
                   THEN /\ emitted' =
                            <<Emit(c, [ev |-> "error",
                                       type |-> "rate_limited",
                                       retryAfter |->
                                            rateLimitCheck.retryAfter])>>
                        /\ UNCHANGED sends
                   ELSE /\ emitted' = << >>
                        /\ sends' = sends (+) SetToBag(
                               {[socket |-> c, event |-> event,
                                 messageType |-> messageType,
                                 senderId |-> senderId,
                                 senderUsername |-> sockets[c].username,
                                 target |-> target, at |-> now]})
    /\ handled' = [event |-> event, socket |-> c, at |-> "start",
                   target |-> target]
    /\ UNCHANGED <<now, BLOCKED_USER_IDS, registryVars, sockets, storeVars,
                   ret>>

\* socket.on("directMessage", {recipientId, message})
DirectMessage(c, recipientId) ==
    SendStart(c, "directMessage", "direct", recipientId)

\* socket.on("roomMessage", {roomId, message})
RoomMessage(c, roomId) == SendStart(c, "roomMessage", "room", roomId)

\* socket.on("globalMessage", {message})
GlobalMessage(c) == SendStart(c, "globalMessage", "global", Global)

\* the row a send inserts; created_at is new Date() at the call of the
\* insert, which the handler makes in the turn of its rate check
MessageRow(task) ==
    [sender_id |-> task.senderId,
     recipient_id |-> IF task.event = "directMessage" THEN task.target
                      ELSE Null,
     room_id |-> IF task.event = "directMessage" THEN Null ELSE task.target,
     created_at |-> task.at]

\* the fan-out, mutated: a direct message goes to every open connection
FanOutToAll(task) ==
    LET payload == [ev |-> task.event, senderId |-> task.senderId,
                    senderUsername |-> task.senderUsername,
                    target |-> task.target]
    IN  IF task.event = "directMessage"
        THEN EmitToAll({d \in Conns : IsOpen(d)}, payload)
             \o <<Emit(task.socket, [ev |-> "messageSent",
                                     recipientId |-> task.target])>>
        ELSE ToRoom(task.target, payload)

\* what the handler emits after a successful insert
FanOut(task) ==
    LET payload == [ev |-> task.event, senderId |-> task.senderId,
                    senderUsername |-> task.senderUsername,
                    target |-> task.target]
    IN  IF task.event = "directMessage"
        THEN LET recipientSocket == findSocketByUserId(task.target)
             IN  (IF recipientSocket # 0
                  THEN <<Emit(recipientSocket, payload)>> ELSE << >>)
                 \o <<Emit(task.socket, [ev |-> "messageSent",
                                         recipientId |-> task.target])>>
        ELSE ToRoom(task.target, payload)

\* the commit after a successful insert, mutated: only for a sender that is
\* still connected
CommitIfOpen(task, outcome) ==
    IF outcome = "saved" /\ IsOpen(task.socket)
    THEN incrementMessageCount(userMessageCounts, task.senderId,
                               task.messageType)
    ELSE userMessageCounts

\* the commit after a successful insert, mutated: no count is incremented
CommitNever(task, outcome) == userMessageCounts

\* the commit after a successful insert, mutated: the count is also
\* incremented when the insert failed
CommitAlways(task, outcome) ==
    incrementMessageCount(userMessageCounts, task.senderId, task.messageType)

\* lines 627-628, 763-764, 838-839: incrementMessageCount after the save
Commit(task, outcome) ==
    IF outcome = "saved"
    THEN incrementMessageCount(userMessageCounts, task.senderId,
                               task.messageType)
    ELSE userMessageCounts

\* The await of the pending send task returns with outcome.
SendResumed(task, outcome) ==
    /\ BagIn(task, sends)
    /\ LET c == task.socket
       IN  /\ dbMessages' = IF outcome = "saved"
                            THEN Append(dbMessages, MessageRow(task))
                            ELSE dbMessages
           /\ userMessageCounts' = Commit(task, outcome)
           /\ emitted' =
                CASE outcome = "saved" -> FanOut(task)
                  [] outcome = "error" ->
                        <<Emit(task.socket,
                               ErrorEvent("message_failed",
                                          "Failed to send message"))>>
                  [] outcome = "throw" ->
                        \* the catch of directMessage emits an error with no
                        \* type; roomMessage and globalMessage have no catch
                        IF task.event = "directMessage"
                        THEN <<Emit(task.socket,
                                    ErrorEvent("none",
                                               "Failed to send message"))>>
                        ELSE << >>
           /\ handled' = [event |-> task.event, socket |-> task.socket,
                          at |-> "resumed", target |-> task.target,
                          outcome |-> outcome]
    /\ sends' = sends (-) SetToBag({task})
    /\ UNCHANGED <<now, BLOCKED_USER_IDS, registryVars, sockets, dbUsers,
                   ret>>

(***************************************************************************)
(* index.ts: socket.on("joinRoom").                                        *)
(***************************************************************************)
JoinRoom(c, roomId) ==
    /\ IsOpen(c)
    /\ ListenersInstalled(c)
    /\ sockets' = [sockets EXCEPT ![c].rooms = @ \cup {roomId}]
    /\ emitted' =
            <<Emit(c, [ev |-> "roomJoined", roomId |-> roomId])>>
            \o EmitToAll({d \in Conns : IsOpen(d) /\ roomId \in sockets[d].rooms}
                            \cup {c},
                         [ev |-> "userJoined", userId |-> sockets[c].userId,
                          roomId |-> roomId])
    /\ handled' = [event |-> "joinRoom", socket |-> c, at |-> "start",
                   target |-> roomId]
    /\ UNCHANGED <<limiterVars, BLOCKED_USER_IDS, registryVars, storeVars,
                   sends, ret>>

(***************************************************************************)
(* The clock advances to a later reading.                                  *)
(***************************************************************************)
Tick(t) ==
    /\ t > now
    /\ now' = t
    /\ UNCHANGED <<userMessageCounts, serverVars, ret>>

(***************************************************************************)
(* The server: clients connect, send and leave, the admin blocks and       *)
(* unblocks, in any interleaving of the handlers' steps.                   *)
(***************************************************************************)
Init ==
    /\ now = 0
    /\ InitServer

\* the steps of the connection and disconnect handlers
SessionStep(tokens, usernames) ==
    \/ \E c \in Conns, token \in tokens, username \in usernames :
            Connect(c, token, username)
    \/ \E c \in Conns : ConnectUpserted(c, TRUE)
    \/ \E c \in Conns : ConnectFetched(c)
    \/ \E c \in Conns : ConnectReady(c)
    \/ \E c \in Conns : Disconnect(c)
    \/ \E c \in Conns : DisconnectOffline(c, TRUE)

NextSession ==
    /\ \/ SessionStep({TokenOf(Alice), TokenOf(EmptyString), TokenOf(Evil),
                       ShortToken},
                      {EmptyString})
       \/ AdminBlock(Alice)
       \/ AdminUnblock(Alice)
    /\ UNCHANGED checks

SpecSession == Init /\ [][NextSession]_vars

\* no connection handler is between its first and its last await
Quiet == \A c \in Conns : sockets[c].conn \notin {"upsert", "fetch", "users"}

\* only connection and joinRoom handlers have run so far
SettingUp == handled.event \in {"none", "connection", "joinRoom"}

\* Sockets are set up one at a time, before any traffic; then sends,
\* disconnects and admin requests interleave freely.
Next ==
    \/ /\ \/ \E c \in Conns, token \in {TokenOf(Alice), TokenOf(Bob)} :
                SettingUp /\ Quiet /\ Connect(c, token, EmptyString)
          \/ \E c \in Conns : ConnectUpserted(c, TRUE)
          \/ \E c \in Conns : ConnectFetched(c)
          \/ \E c \in Conns : ConnectReady(c)
          \/ \E c \in Conns : Quiet /\ Disconnect(c)
          \/ \E c \in Conns : DisconnectOffline(c, TRUE)
          \/ Quiet /\ AdminBlock(Alice)
          \/ AdminUnblock(Alice)
          \/ \E task \in BagToSet(sends), outcome \in SaveOutcomes :
                SendResumed(task, outcome)
       /\ UNCHANGED checks
    \/ /\ checks < MaxSends
       /\ Quiet
       /\ checks' = checks + 1
       /\ \/ \E c \in Conns : DirectMessage(c, Bob)
          \/ \E c \in Conns, r \in {Global, Lobby} : RoomMessage(c, r)
          \/ \E c \in Conns : GlobalMessage(c)

Spec == Init /\ [][Next]_vars

(***************************************************************************)
(* The window driver: one (user, class) pair per behaviour, every allowed  *)
(* check followed by its commit, the clock kept inside the counter's       *)
(* window.                                                                 *)
(***************************************************************************)
HasCounter(userId, messageType) ==
    userId \in DOMAIN userMessageCounts
        /\ messageType \in DOMAIN userMessageCounts[userId]

OnlyPair(userId, messageType) ==
    \A u \in UserIds, c \in MessageTypes :
        HasCounter(u, c) => u = userId /\ c = messageType

InitWindow ==
    /\ now \in Times
    /\ InitServer

CheckThenCommit(userId, messageType) ==
    /\ OnlyPair(userId, messageType)
    /\ checks < RATE_LIMITS[messageType].maxMessages + 1 + MaxExtra
    /\ LET r == isRateLimited(userMessageCounts, userId, messageType, now)
       IN  /\ userMessageCounts' =
                IF r.limited THEN r.counts
                ELSE incrementMessageCount(r.counts, userId, messageType)
           /\ ret' = [op |-> "isRateLimited", userId |-> userId,
                      messageType |-> messageType, limited |-> r.limited,
                      retryAfter |-> r.retryAfter]
    /\ checks' = checks + 1
    /\ UNCHANGED <<now, serverVars>>

TickInWindow(t) ==
    /\ t > now
    /\ \A u \in UserIds, c \in MessageTypes :
            HasCounter(u, c) =>
                t - userMessageCounts[u][c].windowStart
                    <= RATE_LIMITS[c].windowMs
    /\ now' = t
    /\ UNCHANGED <<userMessageCounts, ret, checks, serverVars>>

NextWindow ==
    \/ \E u \in UserIds, c \in MessageTypes : CheckThenCommit(u, c)
    \/ \E t \in Times : TickInWindow(t)

SpecWindow == InitWindow /\ [][NextWindow]_vars

(***************************************************************************)
(* C1: inside one window, with every allowed check committed, the k-th     *)
(* check of a (user, class) pair is allowed exactly when k <= maxMessages, *)
(* and the first rejected check, the one numbered maxMessages + 1, reports *)
(* retryAfter = ceil(cooldownMs / 1000).                                   *)
(***************************************************************************)
C1_FirstMaxAllowed ==
    ret.op = "isRateLimited" =>
        LET limit == RATE_LIMITS[ret.messageType]
        IN  /\ ret.limited <=> checks > limit.maxMessages
            /\ checks = limit.maxMessages + 1 =>
                    ret.retryAfter = CeilDiv(limit.blockDurationMs, 1000)

\* the check numbered maxMessages + 2 has been rejected, at the last
\* millisecond of the window
C1_Witness ==
    /\ ret.op = "isRateLimited"
    /\ ret.limited
    /\ checks = RATE_LIMITS[ret.messageType].maxMessages + 2
    /\ now - userMessageCounts[ret.userId][ret.messageType].windowStart
            = RATE_LIMITS[ret.messageType].windowMs

(***************************************************************************)
(* Vocabulary of the claims about the send handlers.                       *)
(***************************************************************************)
SendEvents == {"directMessage", "roomMessage", "globalMessage"}

\* the events that carry a message to a connection
Deliveries(events) ==
    {i \in 1..Len(events) : events[i].ev \in SendEvents}

\* countData.count of (userId, messageType), 0 when there is no counter
CountOf(counts, userId, messageType) ==
    IF userId \in DOMAIN counts /\ messageType \in DOMAIN counts[userId]
    THEN counts[userId][messageType].count
    ELSE 0

\* the step taken is the first part of a send handler of a blocked sender
BlockedSendStep ==
    /\ handled'.event \in SendEvents
    /\ handled'.at = "start"
    /\ sockets[handled'.socket].userId \in BLOCKED_USER_IDS

\* the step taken resumes a send handler with the given outcome
ResumedStep(outcome) ==
    /\ handled'.event \in SendEvents
    /\ handled'.at = "resumed"
    /\ handled'.outcome = outcome

(***************************************************************************)
(* C2: check-then-commit is atomic per (user, class): no two sends of one  *)
(* user and one class have both passed the rate check while neither has    *)
(* committed its count.  A send that passed the check and has not          *)
(* committed is a task of sends.                                           *)
(***************************************************************************)
C2_CheckThenCommitAtomic ==
    \A t1 \in BagToSet(sends) :
        /\ CopiesIn(t1, sends) = 1
        /\ \A t2 \in BagToSet(sends) :
                t2.senderId = t1.senderId /\ t2.messageType = t1.messageType
                    => t2 = t1

(***************************************************************************)
(* C3: a send event handled while its sender is on the blocklist gives the *)
(* sender one error of type blocked and nothing else: no insert is         *)
(* started, the store is unchanged, nothing is delivered, and the rate     *)
(* counters are unchanged.                                                 *)
(***************************************************************************)
C3_BlockedSendRejected ==
    [][BlockedSendStep =>
            /\ Len(emitted') = 1
            /\ emitted'[1].to = handled'.socket
            /\ emitted'[1].ev = "error"
            /\ emitted'[1].type = "blocked"
            /\ emitted'[1].sent
            /\ sends' = sends
            /\ dbMessages' = dbMessages
            /\ dbUsers' = dbUsers
            /\ userMessageCounts' = userMessageCounts]_vars

\* a connection that is still open, with its listeners installed, has sent
\* while its user was on the blocklist, and was answered
C3_Witness ==
    /\ handled.event \in SendEvents
    /\ handled.at = "start"
    /\ sockets[handled.socket].userId \in BLOCKED_USER_IDS
    /\ sockets[handled.socket].state = "open"
    /\ Len(emitted) = 1
    /\ emitted[1].type = "blocked"

BurstSend(c, event, messageType, target) ==
    /\ sends = EmptyBag
    /\ Quiet
    /\ OnlyPair(sockets[c].userId, messageType)
    /\ checks < RATE_LIMITS[messageType].maxMessages + 1
    /\ checks' = checks + 1
    /\ SendStart(c, event, messageType, target)

\* the clock is read again before the last attempt of the burst, at any
\* later reading inside the window
BurstTick(t) ==
    /\ sends = EmptyBag
    /\ \E u \in UserIds, c \in MessageTypes :
            HasCounter(u, c) /\ checks = RATE_LIMITS[c].maxMessages
    /\ TickInWindow(t)

NextBurst ==
    \/ /\ \/ \E c \in Conns, token \in {TokenOf(Alice), TokenOf(Bob)} :
                SettingUp /\ Quiet /\ Connect(c, token, EmptyString)
          \/ \E c \in Conns : ConnectUpserted(c, TRUE)
          \/ \E c \in Conns : ConnectFetched(c)
          \/ \E c \in Conns : ConnectReady(c)
          \/ \E c \in Conns : SettingUp /\ Quiet /\ JoinRoom(c, Lobby)
          \/ \E task \in BagToSet(sends) : SendResumed(task, "saved")
       /\ UNCHANGED checks
    \/ \E c \in Conns : BurstSend(c, "directMessage", "direct", Bob)
    \/ \E c \in Conns : BurstSend(c, "roomMessage", "room", Lobby)
    \/ \E c \in Conns : BurstSend(c, "globalMessage", "global", Global)
    \/ \E t \in Times : BurstTick(t)

SpecBurst == Init /\ [][NextBurst]_vars

\* the class of a send event
ClassOf(event) ==
    IF event = "directMessage" THEN "direct"
    ELSE IF event = "roomMessage" THEN "room"
    ELSE "global"

\* the connections that were sent a message by the last step
DeliveredTo == {emitted[i].to : i \in Deliveries(emitted)}

(***************************************************************************)
(* C5: in a burst of maxMessages + 1 sends of one user and one class       *)
(* inside a window, attempt k <= maxMessages passes the check, is          *)
(* persisted as row k, counted and fanned out (to the subscribers of the   *)
(* room, or to the recipient's connection with a messageSent to the        *)
(* sender); attempt maxMessages + 1 is answered with one rate_limited      *)
(* error carrying retryAfter = ceil(blockDurationMs / 1000), 600 for the   *)
(* global class, and is not persisted, counted or fanned out.              *)
(***************************************************************************)
C5_BurstLastRejected ==
    handled.event \in SendEvents =>
        LET class == ClassOf(handled.event)
            limit == RATE_LIMITS[class]
            senderId == sockets[handled.socket].userId
            count == CountOf(userMessageCounts, senderId, class)
        IN  /\ (handled.at = "start" /\ checks <= limit.maxMessages) =>
                    /\ emitted = << >>
                    /\ BagCardinality(sends) = 1
                    /\ Len(dbMessages) = checks - 1
                    /\ count = checks - 1
            /\ handled.at = "resumed" =>
                    /\ checks <= limit.maxMessages
                    /\ Len(dbMessages) = checks
                    /\ dbMessages[checks].sender_id = senderId
                    /\ count = checks
                    /\ \A i \in Deliveries(emitted) :
                            emitted[i].ev = handled.event
                    /\ Len(emitted) = Cardinality(DeliveredTo)
                            + (IF class = "direct" THEN 1 ELSE 0)
                    /\ IF class = "direct"
                       THEN /\ DeliveredTo =
                                    {userSockets[u] :
                                        u \in {handled.target}
                                                \cap DOMAIN userSockets}
                            /\ emitted[Len(emitted)].ev = "messageSent"
                            /\ emitted[Len(emitted)].to = handled.socket
                       ELSE DeliveredTo =
                                {d \in Conns :
                                    /\ sockets[d].state = "open"
                                    /\ handled.target \in sockets[d].rooms}
            /\ (handled.at = "start" /\ checks = limit.maxMessages + 1) =>
                    /\ Len(emitted) = 1
                    /\ emitted[1].to = handled.socket
                    /\ emitted[1].ev = "error"
                    /\ emitted[1].type = "rate_limited"
                    /\ emitted[1].retryAfter
                            = CeilDiv(limit.blockDurationMs, 1000)
                    /\ class = "global" => emitted[1].retryAfter = 600
                    /\ sends = EmptyBag
                    /\ Len(dbMessages) = limit.maxMessages
                    /\ count = limit.maxMessages

\* the twentieth room message of a burst has been delivered to the two
\* connections that joined the room
C5_RoomWitness ==
    /\ handled.event = "roomMessage"
    /\ handled.at = "resumed"
    /\ checks = 20
    /\ Len(dbMessages) = 20
    /\ DeliveredTo = {1, 2}

\* the eleventh global message of a burst has been rejected, at the last
\* millisecond of the window, the ten before it having reached a second
\* connection
C5_Witness ==
    /\ handled.event = "globalMessage"
    /\ handled.at = "start"
    /\ checks = 11
    /\ Len(emitted) = 1
    /\ emitted[1].type = "rate_limited"
    /\ emitted[1].retryAfter = 600
    /\ Len(dbMessages) = 10
    /\ now = 60000
    /\ \E d \in Conns \ {handled.socket} : Global \in sockets[d].rooms

(***************************************************************************)
(* Vocabulary of the claims about the registry.  Sockets connect in the    *)
(* order of their numbers, so of two registered sockets the one with the   *)
(* larger number registered later.                                         *)
(***************************************************************************)
\* the sockets that passed the middleware and the blocklist check, and so
\* were registered for userId
RegisteredFor(userId) ==
    {c \in Conns : /\ sockets[c].conn \in {"upsert", "fetch", "users", "ready"}
                   /\ sockets[c].userId = userId}

Latest(S) == CHOOSE c \in S : \A d \in S : d <= c

(***************************************************************************)
(* C6: the two registry maps are mutually consistent: userSockets maps u   *)
(* to h exactly when socketUsers maps h to u.                              *)
(***************************************************************************)
C6_RegistryConsistent ==
    /\ \A u \in DOMAIN userSockets :
            /\ userSockets[u] \in DOMAIN socketUsers
            /\ socketUsers[userSockets[u]] = u
    /\ \A h \in DOMAIN socketUsers :
            /\ socketUsers[h] \in DOMAIN userSockets
            /\ userSockets[socketUsers[h]] = h

(***************************************************************************)
(* C7: when two or more connections have registered for one userId and     *)
(* none of them has disconnected, findSocketByUserId(userId) is the one    *)
(* registered last.                                                        *)
(***************************************************************************)
C7_LatestResolves ==
    \A u \in UserIds :
        (/\ Cardinality(RegisteredFor(u)) >= 2
         /\ \A c \in RegisteredFor(u) : sockets[c].state # "closed")
            => findSocketByUserId(u) = Latest(RegisteredFor(u))

\* alice has two open connections, both fully set up, and resolves to the
\* second
C7_Witness ==
    /\ RegisteredFor(Alice) = {1, 2}
    /\ \A c \in {1, 2} : sockets[c].state = "open" /\ sockets[c].conn = "ready"
    /\ findSocketByUserId(Alice) = 2

(***************************************************************************)
(* The session with redelivery: as SpecSession, and the disconnect event   *)
(* of a socket may be handed to its listener a second time, after the      *)
(* first handling has finished.                                            *)
(***************************************************************************)
Redeliver(c) ==
    /\ sockets[c].state = "closed"
    /\ ListenersInstalled(c)
    /\ sockets[c].disc = "done"
    /\ OnDisconnect(c)
    /\ handled' = [event |-> "disconnect", socket |-> c, at |-> "start",
                   known |-> c \in DOMAIN socketUsers,
                   listening |-> TRUE]
    /\ emitted' = << >>
    /\ UNCHANGED <<limiterVars, BLOCKED_USER_IDS, storeVars, sends, ret>>

NextRedeliver ==
    \/ NextSession
    \/ \E c \in Conns : Redeliver(c) /\ UNCHANGED checks

SpecRedeliver == Init /\ [][NextRedeliver]_vars

(***************************************************************************)
(* C8: when the disconnect listener runs for a socket id that has no entry *)
(* in socketUsers, it changes neither map, starts no store call (the       *)
(* handler is finished, with no setUserOffline awaited), changes no users  *)
(* row and emits nothing; so handling a disconnect a second time leaves    *)
(* what the first handling left.                                           *)
(***************************************************************************)
C8_UnknownDisconnectNoOp ==
    [][(/\ handled'.event = "disconnect"
        /\ handled'.at = "start"
        /\ handled'.listening
        /\ ~handled'.known)
            => /\ userSockets' = userSockets
               /\ socketUsers' = socketUsers
               /\ dbUsers' = dbUsers
               /\ dbMessages' = dbMessages
               /\ emitted' = << >>
               /\ sockets'[handled'.socket].disc = "done"
               /\ \A d \in Conns \ {handled'.socket} :
                        sockets'[d] = sockets[d]]_vars

\* the disconnect of a socket was handled a second time while another
\* connection of the same user is registered
C8_Witness ==
    /\ handled.event = "disconnect"
    /\ handled.at = "start"
    /\ handled.listening
    /\ ~handled.known
    /\ sockets[handled.socket].state = "closed"
    /\ sockets[handled.socket].userId \in DOMAIN userSockets

(***************************************************************************)
(* The presence session: clients connect, with or without a display name,  *)
(* and leave; the store may refuse a write of the users table.             *)
(***************************************************************************)
NextPresence ==
    /\ \/ \E c \in Conns, token \in {TokenOf(Alice), TokenOf(EmptyString)},
             username \in {EmptyString, Ann} : Connect(c, token, username)
       \/ \E c \in Conns, ok \in BOOLEAN : ConnectUpserted(c, ok)
       \/ \E c \in Conns : ConnectFetched(c)
       \/ \E c \in Conns : ConnectReady(c)
       \/ \E c \in Conns : Disconnect(c)
       \/ \E c \in Conns, ok \in BOOLEAN : DisconnectOffline(c, ok)
    /\ UNCHANGED checks

SpecPresence == Init /\ [][NextPresence]_vars

\* the view getAugmentedUserLists computes in the current state
PresenceView == getAugmentedUserLists(getAllUsers(dbUsers), userSockets)

Ids(list) == {e.id : e \in list}

\* the last step sent a socket its initialData
SnapshotSent ==
    /\ handled.event = "connection"
    /\ handled.at = "ready"
    /\ Len(emitted) >= 1
    /\ emitted[1].ev = "initialData"

\* the users persisted as offline whose id is in the registry
OfflineButLive ==
    {u \in DOMAIN dbUsers \cap DOMAIN userSockets : ~dbUsers[u].is_online}

(***************************************************************************)
(* C9: a user persisted with is_online = false whose id has an entry in    *)
(* userSockets is listed online and not offline, in the presence view of   *)
(* every reachable state and in every initialData snapshot sent.           *)
(***************************************************************************)
C9_LiveWins ==
    \A u \in OfflineButLive :
        /\ u \in Ids(PresenceView.onlineUsers)
        /\ u \notin Ids(PresenceView.offlineUsers)
        /\ SnapshotSent =>
                /\ u \in Ids(emitted[1].onlineUsers)
                /\ u \notin Ids(emitted[1].offlineUsers)

\* a user who left and came back was sent a snapshot while the store still
\* had the user offline
C9_Witness ==
    /\ SnapshotSent
    /\ Alice \in OfflineButLive
    /\ Alice \in Ids(emitted[1].onlineUsers)
    /\ sockets[handled.socket].userId = Alice

(***************************************************************************)
(* C10: for every entry of userSockets whose userId has no row in the      *)
(* users table, the presence view has exactly one online entry for that    *)
(* userId, and it carries the username of the connection.                  *)
(***************************************************************************)
C10_UnpersistedLiveListed ==
    \A u \in DOMAIN userSockets \ DOMAIN dbUsers :
        {e \in PresenceView.onlineUsers : e.id = u}
            = {[id |-> u, username |-> sockets[userSockets[u]].username]}

(***************************************************************************)
(* C11: the online ids of the presence view are exactly the userIds of     *)
(* userSockets, its offline ids are exactly the ids of the users table     *)
(* that are not in userSockets, and no id is in both lists.                *)
(***************************************************************************)
C11_ViewPartitions ==
    /\ Ids(PresenceView.onlineUsers) = DOMAIN userSockets
    /\ Ids(PresenceView.offlineUsers) = DOMAIN dbUsers \ DOMAIN userSockets
    /\ Ids(PresenceView.onlineUsers) \cap Ids(PresenceView.offlineUsers) = {}

\* the positions in events of the events named ev
EventsNamed(events, ev) == {i \in 1..Len(events) : events[i].ev = ev}

(***************************************************************************)
(* C12: the step that completes an accepted direct message to r appends    *)
(* its row and acknowledges the sender with one messageSent; it emits one  *)
(* directMessage, to the connection findSocketByUserId(r) resolves to in   *)
(* that step, and to no other connection; when r resolves to no            *)
(* connection it emits no delivery and no error.                           *)
(***************************************************************************)
C12_DirectToResolved ==
    [][(ResumedStep("saved") /\ handled'.event = "directMessage") =>
            LET r == handled'.target
                delivered == Deliveries(emitted')
            IN  /\ Len(dbMessages') = Len(dbMessages) + 1
                /\ dbMessages'[Len(dbMessages')].recipient_id = r
                /\ EventsNamed(emitted', "error") = {}
                /\ Cardinality(EventsNamed(emitted', "messageSent")) = 1
                /\ \A i \in EventsNamed(emitted', "messageSent") :
                        emitted'[i].to = handled'.socket
                /\ IF findSocketByUserId(r) # 0
                   THEN /\ Cardinality(delivered) = 1
                        /\ \A i \in delivered :
                                /\ emitted'[i].ev = "directMessage"
                                /\ emitted'[i].to = findSocketByUserId(r)
                   ELSE delivered = {}]_vars

\* a direct message of one connection was delivered to another, the one the
\* recipient resolves to
C12_Witness ==
    /\ handled.event = "directMessage"
    /\ handled.at = "resumed"
    /\ handled.outcome = "saved"
    /\ findSocketByUserId(handled.target) # 0
    /\ findSocketByUserId(handled.target) # handled.socket
    /\ \E i \in Deliveries(emitted) :
            emitted[i].to = findSocketByUserId(handled.target)
                /\ emitted[i].sent

\* a direct message to a user with no registered connection was completed
C12_WitnessUnregistered ==
    /\ handled.event = "directMessage"
    /\ handled.at = "resumed"
    /\ handled.outcome = "saved"
    /\ findSocketByUserId(handled.target) = 0
    /\ Len(dbMessages) = 1
    /\ Len(emitted) = 1
    /\ emitted[1].ev = "messageSent"

\* the acknowledgments among events that are addressed to socket c
Acks(events, c) ==
    {i \in EventsNamed(events, "messageSent") : events[i].to = c}

(***************************************************************************)
(* C13: the step that completes an accepted send (direct, room or global)  *)
(* emits exactly one acknowledgment to the sending connection.             *)
(***************************************************************************)
C13_OneAckPerSend ==
    [][ResumedStep("saved") =>
            Cardinality(Acks(emitted', handled'.socket)) = 1]_vars

\* the step taken is the first part of a send handler, whose sender is not
\* blocked and whose rate check is rejected
RateLimitedSendStep ==
    /\ handled'.event \in SendEvents
    /\ handled'.at = "start"
    /\ sockets[handled'.socket].userId \notin BLOCKED_USER_IDS
    /\ isRateLimited(userMessageCounts, sockets[handled'.socket].userId,
                     ClassOf(handled'.event), now).limited

\* the step emits exactly one event: an error of the given type, to the
\* socket whose handler ran
OneErrorOfType(type) ==
    /\ Len(emitted') = 1
    /\ emitted'[1].to = handled'.socket
    /\ emitted'[1].ev = "error"
    /\ emitted'[1].type = type

(***************************************************************************)
(* C14: every rejected send ends with exactly one error event to the       *)
(* sending connection, of type blocked when the sender is blocked, of type *)
(* rate_limited when the rate check rejects, and of type message_failed    *)
(* when the insert fails, whether the store returns no row or raises.      *)
(***************************************************************************)
C14_OneErrorPerRejection ==
    [][/\ BlockedSendStep => OneErrorOfType("blocked")
       /\ RateLimitedSendStep => OneErrorOfType("rate_limited")
       /\ ResumedStep("error") => OneErrorOfType("message_failed")
       /\ ResumedStep("throw") => OneErrorOfType("message_failed")]_vars

(***************************************************************************)
(* The limiter driver: one (user, class) pair per behaviour is checked at  *)
(* any reading of the clock; an allowed check is followed by its commit    *)
(* (the send was saved) or by nothing (it was not), before the next check. *)
(* ret keeps, with the value a check returned, the reading of the clock    *)
(* and the counter the check found.                                        *)
(***************************************************************************)
LimiterCheck(userId, messageType) ==
    /\ OnlyPair(userId, messageType)
    /\ LET r == isRateLimited(userMessageCounts, userId, messageType, now)
       IN  /\ userMessageCounts' = r.counts
           /\ ret' = [op |-> "isRateLimited", userId |-> userId,
                      messageType |-> messageType, limited |-> r.limited,
                      retryAfter |-> r.retryAfter, at |-> now,
                      prior |-> CountDataOf(userMessageCounts, userId,
                                            messageType, now)]
    /\ UNCHANGED <<now, serverVars, checks>>

LimiterCommit(userId, messageType) ==
    /\ ret.op = "isRateLimited"
    /\ ~ret.limited
    /\ ret.userId = userId
    /\ ret.messageType = messageType
    /\ userMessageCounts' =
            incrementMessageCount(userMessageCounts, userId, messageType)
    /\ ret' = [op |-> "incrementMessageCount", userId |-> userId,
               messageType |-> messageType]
    /\ UNCHANGED <<now, serverVars, checks>>

NextLimiter ==
    \/ \E c \in MessageTypes : LimiterCheck(Alice, c)
    \/ \E c \in MessageTypes : LimiterCommit(Alice, c)
    \/ \E t \in Times : Tick(t) /\ UNCHANGED checks

SpecLimiter == Init /\ [][NextLimiter]_vars

\* the last call was a check of a counter found with blockedUntil set
CheckedBlockedCounter ==
    /\ ret.op = "isRateLimited"
    /\ ret.prior.blockedUntil # NoBlock

\* the counter the last call worked on, as it is now
CounterOfRet == userMessageCounts[ret.userId][ret.messageType]

(***************************************************************************)
(* C15: a check of a counter that entered cooldown, made at a time         *)
(* now >= blockedUntil, returns allowed and leaves the counter with        *)
(* count = 0, windowStart = now and no block.                              *)
(***************************************************************************)
C15_FreshWindowAfterCooldown ==
    (CheckedBlockedCounter /\ ret.at >= ret.prior.blockedUntil) =>
        /\ ~ret.limited
        /\ CounterOfRet.count = 0
        /\ CounterOfRet.windowStart = ret.at
        /\ CounterOfRet.blockedUntil = NoBlock

\* a check made at the very millisecond the cooldown ended was allowed
C15_Witness ==
    /\ CheckedBlockedCounter
    /\ ret.at = ret.prior.blockedUntil
    /\ ret.prior.count = RATE_LIMITS[ret.messageType].maxMessages
    /\ ~ret.limited
    /\ now = ret.at

\* the check just made found its counter in cooldown
CheckedInCooldown ==
    /\ ret'.op = "isRateLimited"
    /\ ret'.prior.blockedUntil # NoBlock
    /\ ret'.at < ret'.prior.blockedUntil

(***************************************************************************)
(* C16: a check made while its counter is in cooldown (now < blockedUntil) *)
(* is rejected, leaves count, windowStart and blockedUntil as they were,   *)
(* and returns retryAfter = ceil((blockedUntil - now) / 1000), which is    *)
(* at most the retryAfter of the rejected check before it.                 *)
(***************************************************************************)
C16_CooldownNotExtended ==
    [][CheckedInCooldown =>
            /\ ret'.limited
            /\ userMessageCounts'[ret'.userId][ret'.messageType] = ret'.prior
            /\ ret'.retryAfter
                    = CeilDiv(ret'.prior.blockedUntil - ret'.at, 1000)
            /\ (ret.op = "isRateLimited" /\ ret.limited)
                    => ret'.retryAfter <= ret.retryAfter]_vars

\* a check made one millisecond before the end of the cooldown was
\* rejected with retryAfter = 1, after an earlier rejected check
C16_Witness ==
    /\ CheckedBlockedCounter
    /\ ret.at = ret.prior.blockedUntil - 1
    /\ ret.limited
    /\ ret.retryAfter = 1
    /\ CounterOfRet = ret.prior

(***************************************************************************)
(* The boundary driver: as the burst driver, with the clock free to cross  *)
(* the end of the first window, and a budget of MaxExtra more sends.       *)
(***************************************************************************)
BoundaryTimes == {t \in Times : t <= 60000 + MaxOffset}

BoundarySend(c, event, messageType, target) ==
    /\ sends = EmptyBag
    /\ Quiet
    /\ OnlyPair(sockets[c].userId, messageType)
    /\ checks < RATE_LIMITS[messageType].maxMessages + 1 + MaxExtra
    /\ checks' = checks + 1
    /\ SendStart(c, event, messageType, target)

NextBoundary ==
    \/ /\ \/ \E c \in Conns :
                SettingUp /\ Quiet /\ Connect(c, TokenOf(Alice), EmptyString)
          \/ \E c \in Conns : ConnectUpserted(c, TRUE)
          \/ \E c \in Conns : ConnectFetched(c)
          \/ \E c \in Conns : ConnectReady(c)
          \/ \E task \in BagToSet(sends) : SendResumed(task, "saved")
          \/ \E t \in BoundaryTimes : Tick(t)
       /\ UNCHANGED checks
    \/ \E c \in Conns : BoundarySend(c, "directMessage", "direct", Bob)
    \/ \E c \in Conns : BoundarySend(c, "roomMessage", "room", Lobby)
    \/ \E c \in Conns : BoundarySend(c, "globalMessage", "global", Global)

SpecBoundary == Init /\ [][NextBoundary]_vars

(***************************************************************************)
(* C17: with sends handled one at a time, every interval of length         *)
(* windowMs holds at most maxMessages accepted sends of one user and       *)
(* class: of the rows of that user and class, the one accepted             *)
(* maxMessages sends after another was accepted at least windowMs later.   *)
(***************************************************************************)
C17_SlidingWindowBound ==
    \A u \in UserIds, class \in MessageTypes :
        HasCounter(u, class) =>
            LET limit == RATE_LIMITS[class]
            IN  \A i \in 1..Len(dbMessages) :
                    LET j == i + limit.maxMessages
                    IN  j <= Len(dbMessages) =>
                            dbMessages[j].created_at
                                - dbMessages[i].created_at >= limit.windowMs

\* the connections a message of the given event to target is due to, in
\* the current state: the one the recipient resolves to, or the open
\* connections subscribed to the room
DueTo(event, target) ==
    IF event = "directMessage"
    THEN {findSocketByUserId(target)} \ {0}
    ELSE {d \in Conns : IsOpen(d) /\ target \in sockets[d].rooms}

(***************************************************************************)
(* C18: a disconnect step leaves the pending sends, the messages and the   *)
(* rate counters alone; and when the insert of a send succeeds after the   *)
(* sender's connection has gone, the step that resumes the handler appends *)
(* the row, increments the sender's count of the class by one and delivers *)
(* the message to the connections registered or subscribed in that step.   *)
(***************************************************************************)
C18_SendSurvivesDisconnect ==
    [][/\ handled'.event = "disconnect" =>
            /\ sends' = sends
            /\ dbMessages' = dbMessages
            /\ userMessageCounts' = userMessageCounts
       /\ (ResumedStep("saved") /\ ~IsOpen(handled'.socket)) =>
            LET senderId == sockets[handled'.socket].userId
                class == ClassOf(handled'.event)
            IN  /\ Len(dbMessages') = Len(dbMessages) + 1
                /\ dbMessages'[Len(dbMessages')].sender_id = senderId
                /\ CountOf(userMessageCounts', senderId, class)
                        = CountOf(userMessageCounts, senderId, class) + 1
                /\ {emitted'[i].to : i \in Deliveries(emitted')}
                        = DueTo(handled'.event, handled'.target)
                /\ \A i \in Deliveries(emitted') :
                        emitted'[i].ev = handled'.event]_vars

\* the send of a connection that has since closed was completed and
\* delivered to another connection
C18_Witness ==
    /\ handled.event \in SendEvents
    /\ handled.at = "resumed"
    /\ handled.outcome = "saved"
    /\ sockets[handled.socket].state = "closed"
    /\ Len(dbMessages) >= 1
    /\ CountOf(userMessageCounts, sockets[handled.socket].userId,
               ClassOf(handled.event)) >= 1
    /\ \E i \in Deliveries(emitted) :
            emitted[i].to # handled.socket /\ emitted[i].sent

\* the step taken is the connection of socket c, by a client whose token
\* is valid and whose userId is on the blocklist
BlockedConnectStep(c) ==
    /\ handled'.event = "connection"
    /\ handled'.at = "start"
    /\ handled'.socket = c
    /\ sockets'[c].conn # "refused"
    /\ sockets'[c].userId \in BLOCKED_USER_IDS

\* socket c is in neither registry map and in no room
Unregistered(c) ==
    /\ c \notin DOMAIN socketUsers
    /\ \A u \in DOMAIN userSockets : userSockets[u] # c
    /\ sockets[c].rooms = {}

LastCalls == IF "last" \in DOMAIN ret THEN ret.last ELSE EmptyMap

BlockCall(userId) ==
    /\ BLOCKED_USER_IDS' = blockUser(BLOCKED_USER_IDS, userId)
    /\ ret' = [op |-> "blockUser", userId |-> userId,
               last |-> MapSet(LastCalls, userId, "blockUser")]
    /\ UNCHANGED <<limiterVars, registryVars, sockets, storeVars, sends,
                   handled, emitted, checks>>

UnblockCall(userId) ==
    /\ BLOCKED_USER_IDS' = unblockUser(BLOCKED_USER_IDS, userId)
    /\ ret' = [op |-> "unblockUser", userId |-> userId,
               last |-> MapSet(LastCalls, userId, "unblockUser")]
    /\ UNCHANGED <<limiterVars, registryVars, sockets, storeVars, sends,
                   handled, emitted, checks>>

NextBlocklist ==
    \/ \E x \in UserIds : BlockCall(x)
    \/ \E x \in UserIds : UnblockCall(x)

SpecBlocklist == Init /\ [][NextBlocklist]_vars

(***************************************************************************)
(* C20: the blocklist is a set of ids.  isUserBlocked(x) is true exactly   *)
(* when the last call on x was blockUser, or when no call was made on x    *)
(* and x is in the initial set; a call on x leaves isUserBlocked(y) as it  *)
(* was for every other id y, and unblockUser of an id that is not blocked  *)
(* changes nothing.                                                        *)
(***************************************************************************)
C20_BlocklistIsASet ==
    /\ [](\A x \in UserIds :
            isUserBlocked(BLOCKED_USER_IDS, x) <=>
                IF x \in DOMAIN LastCalls
                THEN LastCalls[x] = "blockUser"
                ELSE x \in InitialBlocklist)
    /\ [][/\ \A y \in UserIds \ {ret'.userId} :
                isUserBlocked(BLOCKED_USER_IDS', y)
                    <=> isUserBlocked(BLOCKED_USER_IDS, y)
          /\ (/\ ret'.op = "unblockUser"
              /\ ~isUserBlocked(BLOCKED_USER_IDS, ret'.userId))
                => BLOCKED_USER_IDS' = BLOCKED_USER_IDS]_vars

\* the configured id was unblocked and another id blocked, and the last
\* call unblocked a third id
C20_Witness ==
    /\ ret.op = "unblockUser"
    /\ ret.userId = Bob
    /\ DOMAIN LastCalls = {Evil, Alice, Bob}
    /\ LastCalls[Evil] = "unblockUser"
    /\ LastCalls[Alice] = "blockUser"
    /\ BLOCKED_USER_IDS = {Alice}

\* the limit of direct messages in the table "Rate Limits by Message Type"
DocumentedDirectMax == 30

(***************************************************************************)
(* C21: direct messages are limited to 30 per one-minute window.  With     *)
(* every allowed check committed, the first 30 direct checks inside one    *)
(* window are allowed, the 31st is rejected, and that rejection announces  *)
(* the 5-minute cooldown.                                                  *)
(***************************************************************************)
C21_DirectLimitThirty ==
    (ret.op = "isRateLimited" /\ ret.messageType = "direct") =>
        /\ ret.limited <=> checks > DocumentedDirectMax
        /\ checks = DocumentedDirectMax + 1 =>
                ret.retryAfter = CeilDiv(RATE_LIMITS["direct"].blockDurationMs, 1000)

(***************************************************************************)
(* The administrative operations of the rate limiter.                      *)
(***************************************************************************)
\* messageType?: string left out of the call (req.query without the key)
NoType == "undefined"

\* clearRateLimit(userId), mutated: the class given is ignored
clearRateLimitAll(counts, userId, messageType) == MapDelete(counts, userId)

\* clearRateLimit(userId, messageType?): without a class the user's entry
\* is deleted, with one only that class of an existing entry
clearRateLimit(counts, userId, messageType) ==
    IF messageType = NoType
    THEN MapDelete(counts, userId)
    ELSE IF userId \in DOMAIN counts
    THEN [counts EXCEPT ![userId] = MapDelete(@, messageType)]
    ELSE counts

\* new Date(ms).toISOString(): the text of the instant, one per instant
toISOString(ms) == <<"ISO-8601", ms>>

\* the entry of one class when the user has no entry, mutated: the class
\* is reported as used up
StatusOfUnknownFull(limit) ==
    [count |-> limit.maxMessages, limit |-> limit.maxMessages]

\* lines 109-113: the entry of one class when the user has no entry
StatusOfUnknown(limit) == [count |-> 0, limit |-> limit.maxMessages]

\* getRateLimitStatus(userId) at time t
getRateLimitStatus(counts, userId, t) ==
    IF userId \notin DOMAIN counts
    THEN [messageType \in MessageTypes |->
            StatusOfUnknown(RATE_LIMITS[messageType])]
    ELSE [messageType \in MessageTypes |->
            LET limit == RATE_LIMITS[messageType]
                userCounts == counts[userId]
            IN  IF \/ messageType \notin DOMAIN userCounts
                   \/ t - userCounts[messageType].windowStart > limit.windowMs
                THEN [count |-> 0,
                      limit |-> limit.maxMessages,
                      windowRemaining |-> limit.windowMs \div 1000]
                ELSE LET countData == userCounts[messageType]
                     IN  [count |-> countData.count,
                          limit |-> limit.maxMessages,
                          windowRemaining |->
                              CeilDiv(limit.windowMs
                                        - (t - countData.windowStart), 1000),
                          blockedUntil |->
                              IF countData.blockedUntil # NoBlock
                              THEN toISOString(countData.blockedUntil)
                              ELSE Null]]

(***************************************************************************)
(* The counters driver: three (user, class) pairs, with checks, commits    *)
(* and the administrative calls in any order.  The first pair is driven up *)
(* to its limit and into cooldown, the other two commit one send each, and *)
(* the clock is advanced once.                                             *)
(***************************************************************************)
CounterUsers == {Alice, Bob}

CounterPairs == {<<Alice, "global">>, <<Alice, "direct">>, <<Bob, "global">>}

CounterCheck(userId, messageType) ==
    /\ LET r == isRateLimited(userMessageCounts, userId, messageType, now)
       IN  /\ userMessageCounts' = r.counts
           /\ ret' = [op |-> "isRateLimited", userId |-> userId,
                      messageType |-> messageType, limited |-> r.limited,
                      retryAfter |-> r.retryAfter]
    /\ UNCHANGED <<now, serverVars, checks>>

CounterCommit(userId, messageType) ==
    /\ \/ userId = Alice /\ messageType = "global"
       \/ CountOf(userMessageCounts, userId, messageType) = 0
    /\ LimiterCommit(userId, messageType)

ClearCall(userId, messageType) ==
    /\ userMessageCounts' =
            clearRateLimit(userMessageCounts, userId, messageType)
    /\ ret' = [op |-> "clearRateLimit", userId |-> userId,
               messageType |-> messageType, at |-> now,
               prior |-> IF userId \in DOMAIN userMessageCounts
                         THEN userMessageCounts[userId]
                         ELSE EmptyMap]
    /\ UNCHANGED <<now, serverVars, checks>>

StatusCall(userId) ==
    /\ ret' = [op |-> "getRateLimitStatus", userId |-> userId,
               status |-> getRateLimitStatus(userMessageCounts, userId, now)]
    /\ UNCHANGED <<now, userMessageCounts, serverVars, checks>>

CounterTick(t) ==
    /\ checks = 0
    /\ Tick(t)
    /\ checks' = checks + 1

NextCounters ==
    \/ \E p \in CounterPairs : CounterCheck(p[1], p[2])
    \/ \E p \in CounterPairs : CounterCommit(p[1], p[2])
    \/ \E u \in CounterUsers, c \in {"global", "direct", NoType} :
            ClearCall(u, c)
    \/ \E u \in CounterUsers : StatusCall(u)
    \/ \E t \in Times : CounterTick(t)

SpecCounters == Init /\ [][NextCounters]_vars

(***************************************************************************)
(* Vocabulary of the claims about the counters.                            *)
(***************************************************************************)
HasCounterIn(counts, userId, messageType) ==
    userId \in DOMAIN counts /\ messageType \in DOMAIN counts[userId]

\* (userId, messageType) has the same counter, or none, in both maps
SameCounter(before, after, userId, messageType) ==
    /\ HasCounterIn(after, userId, messageType)
            <=> HasCounterIn(before, userId, messageType)
    /\ HasCounterIn(before, userId, messageType) =>
            after[userId][messageType] = before[userId][messageType]

\* the step taken is a call of the named limiter function
CallStep(op) == ret'.op = op /\ now' = now /\ vars' # vars

(***************************************************************************)
(* C22: clear(u) removes every class counter of u and clear(u, c) removes  *)
(* exactly the counter of (u, c), every other counter being left as it     *)
(* was; a check on a pair that has no counter (as after a clear, also one  *)
(* made during a cooldown) is allowed and leaves count 0 in a window that  *)
(* starts now.                                                             *)
(***************************************************************************)
C22_ClearRemovesCounters ==
    [][/\ CallStep("clearRateLimit") =>
            \A u \in UserIds, c \in MessageTypes :
                IF u = ret'.userId
                        /\ ret'.messageType \in {NoType, c}
                THEN ~HasCounterIn(userMessageCounts', u, c)
                ELSE SameCounter(userMessageCounts, userMessageCounts', u, c)
       /\ (/\ CallStep("isRateLimited")
           /\ ~HasCounterIn(userMessageCounts, ret'.userId, ret'.messageType))
            => /\ ~ret'.limited
               /\ userMessageCounts'[ret'.userId][ret'.messageType] =
                    [count |-> 0, windowStart |-> now, blockedUntil |-> NoBlock]
               /\ \A u \in UserIds, c \in MessageTypes :
                    <<u, c>> # <<ret'.userId, ret'.messageType>> =>
                        SameCounter(userMessageCounts, userMessageCounts', u, c)
      ]_vars

\* one class of a user was cleared in the middle of its cooldown, while the
\* user's other class and another user had counters, which are still there
C22_Witness ==
    /\ ret.op = "clearRateLimit"
    /\ ret.userId = Alice
    /\ ret.messageType = "global"
    /\ DOMAIN ret.prior = {"global", "direct"}
    /\ ret.prior["global"].blockedUntil > ret.at
    /\ ret.at > ret.prior["global"].windowStart
    /\ now = ret.at
    /\ ~HasCounterIn(userMessageCounts, Alice, "global")
    /\ HasCounterIn(userMessageCounts, Alice, "direct")
    /\ userMessageCounts[Alice]["direct"].count = 1
    /\ HasCounterIn(userMessageCounts, Bob, "global")

(***************************************************************************)
(* C23: for a user without any counter (no send was ever attempted),       *)
(* getRateLimitStatus returns an entry for each of direct, global and      *)
(* room with count 0 and the configured limit, and leaves the counters as  *)
(* they were: no entry is created for the user.                            *)
(***************************************************************************)
C23_StatusOfUnknownUser ==
    [][(/\ CallStep("getRateLimitStatus")
        /\ ret'.userId \notin DOMAIN userMessageCounts)
        => /\ DOMAIN ret'.status = {"direct", "global", "room"}
           /\ \A c \in DOMAIN ret'.status :
                /\ ret'.status[c].count = 0
                /\ ret'.status[c].limit = RATE_LIMITS[c].maxMessages
           /\ userMessageCounts' = userMessageCounts
           /\ ret'.userId \notin DOMAIN userMessageCounts'
      ]_vars

\* the status of a user who never sent was read while another user was in
\* cooldown
C23_Witness ==
    /\ ret.op = "getRateLimitStatus"
    /\ ret.userId = Bob
    /\ Bob \notin DOMAIN userMessageCounts
    /\ HasCounterIn(userMessageCounts, Alice, "global")
    /\ userMessageCounts[Alice]["global"].blockedUntil > now
    /\ ret.status["global"].count = 0

\* the counters with every pair but (userId, messageType) forgotten
OnlyCounterOf(counts, userId, messageType) ==
    IF HasCounterIn(counts, userId, messageType)
    THEN MapSet(EmptyMap, userId,
                MapSet(EmptyMap, messageType, counts[userId][messageType]))
    ELSE EmptyMap

(***************************************************************************)
(* C28: counters are independent per (user, class).  A check or a commit   *)
(* on (u, c), a rejection that starts a cooldown included, leaves the      *)
(* counter of every other pair as it was, and the answer of a check on     *)
(* (u, c) is the one it would be if (u, c) were the only counter: a user   *)
(* in cooldown for one class is still allowed in the others, and so are    *)
(* the other users.                                                        *)
(***************************************************************************)
C28_CountersIndependent ==
    [][/\ (CallStep("isRateLimited") \/ CallStep("incrementMessageCount"))
            => \A u \in UserIds, c \in MessageTypes :
                    <<u, c>> # <<ret'.userId, ret'.messageType>> =>
                        SameCounter(userMessageCounts, userMessageCounts', u, c)
       /\ CallStep("isRateLimited") =>
            LET alone == isRateLimited(
                            OnlyCounterOf(userMessageCounts, ret'.userId,
                                          ret'.messageType),
                            ret'.userId, ret'.messageType, now)
            IN  /\ ret'.limited = alone.limited
                /\ ret'.retryAfter = alone.retryAfter
                /\ userMessageCounts'[ret'.userId][ret'.messageType] =
                        alone.counts[ret'.userId][ret'.messageType]
      ]_vars

\* a user in cooldown for global was allowed a direct send, and another
\* user a global one
C28_Witness ==
    /\ ret.op = "isRateLimited"
    /\ ret.userId = Alice
    /\ ret.messageType = "direct"
    /\ ~ret.limited
    /\ HasCounterIn(userMessageCounts, Alice, "global")
    /\ userMessageCounts[Alice]["global"].blockedUntil > now
    /\ userMessageCounts[Alice]["global"].count = RATE_LIMITS["global"].maxMessages
    /\ userMessageCounts[Alice]["direct"].count = 1
    /\ HasCounterIn(userMessageCounts, Bob, "global")
    /\ userMessageCounts[Bob]["global"].count = 1
    /\ userMessageCounts[Bob]["global"].blockedUntil = NoBlock

(***************************************************************************)
(* index.ts: the history events getDirectMessageHistory and getRoomHistory.*)
(* A handler holds nothing between its parts but its arguments, and its    *)
(* read changes nothing: the handler is one step, taken when the query     *)
(* answers.                                                                *)
(***************************************************************************)
HistoryEvents == {"getDirectMessageHistory", "getRoomHistory"}

\* the handler, mutated: it begins like the send handlers, with the
\* blocklist test and the rate-limit check of the direct class
GetDirectMessageHistoryGuarded(c, otherUserId, outcome) ==
    /\ IsOpen(c)
    /\ ListenersInstalled(c)
    /\ LET userId == sockets[c].userId
           rateLimitCheck ==
               isRateLimited(userMessageCounts, userId, "direct", now)
       IN  IF SenderBlocked(userId)
           THEN /\ emitted' =
                    <<Emit(c, ErrorEvent("blocked",
                                  "You are blocked from sending messages"))>>
                /\ UNCHANGED userMessageCounts
           ELSE /\ userMessageCounts' = rateLimitCheck.counts
                /\ IF rateLimitCheck.limited
                   THEN emitted' =
                            <<Emit(c, [ev |-> "error",
                                       type |-> "rate_limited",
                                       retryAfter |->
                                            rateLimitCheck.retryAfter])>>
                   ELSE \E history \in getDirectMessageHistory(dbMessages,
                                dbUsers, userId, otherUserId,
                                DirectHistoryLimit, outcome) :
                            emitted' =
                                <<Emit(c, [ev |-> "directMessageHistory",
                                           otherUserId |-> otherUserId,
                                           messages |-> history])>>
    /\ handled' = [event |-> "getDirectMessageHistory", socket |-> c,
                   at |-> "done", target |-> otherUserId,
                   outcome |-> outcome]
    /\ UNCHANGED <<now, BLOCKED_USER_IDS, registryVars, sockets, storeVars,
                   sends, ret>>

\* socket.on("getDirectMessageHistory", {otherUserId, requestId})
GetDirectMessageHistory(c, otherUserId, outcome) ==
    /\ IsOpen(c)
    /\ ListenersInstalled(c)
    /\ LET userId == sockets[c].userId
           requested == Emit(c, [ev |-> "directMessageHistoryRequested",
                                 otherUserId |-> otherUserId])
       IN  IF outcome = "throw"
           THEN emitted' =
                    <<requested,
                      Emit(c, ErrorEvent("none",
                                         "Failed to get message history"))>>
           ELSE \E history \in getDirectMessageHistory(dbMessages, dbUsers,
                        userId, otherUserId, DirectHistoryLimit, outcome) :
                    emitted' =
                        <<requested,
                          Emit(c, [ev |-> "directMessageHistory",
                                   otherUserId |-> otherUserId,
                                   messages |-> history])>>
    /\ handled' = [event |-> "getDirectMessageHistory", socket |-> c,
                   at |-> "done", target |-> otherUserId,
                   outcome |-> outcome]
    /\ UNCHANGED <<limiterVars, BLOCKED_USER_IDS, registryVars, sockets,
                   storeVars, sends, ret>>

\* socket.on("getRoomHistory", {roomId}); the handler has no catch
GetRoomHistory(c, roomId, outcome) ==
    /\ IsOpen(c)
    /\ ListenersInstalled(c)
    /\ IF outcome = "throw"
       THEN emitted' = << >>
       ELSE \E history \in getRoomMessageHistory(dbMessages, dbUsers, roomId,
                                RoomHistoryLimit, outcome) :
                emitted' = <<Emit(c, [ev |-> "roomHistory",
                                      roomId |-> roomId,
                                      messages |-> history])>>
    /\ handled' = [event |-> "getRoomHistory", socket |-> c, at |-> "done",
                   target |-> roomId, outcome |-> outcome]
    /\ UNCHANGED <<limiterVars, BLOCKED_USER_IDS, registryVars, sockets,
                   storeVars, sends, ret>>

(***************************************************************************)
(* The history driver.  Two sockets connect; up to MaxStored direct and    *)
(* room messages are stored at different clock readings; then one user     *)
(* sends global messages up to the limit and into cooldown.  History is    *)
(* requested, and the user blocked, at any point between two sends.        *)
(***************************************************************************)
MaxStored == 2

GlobalStarted == \E u \in UserIds : HasCounter(u, "global")

\* no global send was made yet, or the last one was rejected
OutsideBurst ==
    ~GlobalStarted \/ checks = RATE_LIMITS["global"].maxMessages + 1

StoredSend(c, event, messageType, target) ==
    /\ sends = EmptyBag
    /\ Quiet
    /\ ~GlobalStarted
    /\ Len(dbMessages) < MaxStored
    /\ target # sockets[c].userId
    /\ SendStart(c, event, messageType, target)
    /\ UNCHANGED checks

GlobalBurst(c) ==
    /\ sends = EmptyBag
    /\ Quiet
    /\ sockets[c].userId = Alice
    /\ checks < RATE_LIMITS["global"].maxMessages + 1
    /\ checks' = checks + 1
    /\ SendStart(c, "globalMessage", "global", Global)

HistoryTick(t) ==
    /\ sends = EmptyBag
    /\ ~GlobalStarted
    /\ userMessageCounts # EmptyMap
    /\ TickInWindow(t)

HistoryRequest ==
    /\ sends = EmptyBag
    /\ Quiet
    /\ OutsideBurst
    /\ \/ \E c \in Conns, otherUserId \in {Alice, Bob},
             outcome \in {"ok", "error1", "error", "throw"} :
                /\ otherUserId # sockets[c].userId
                /\ GetDirectMessageHistory(c, otherUserId, outcome)
       \/ \E c \in Conns, outcome \in {"ok", "error", "throw"} :
                GetRoomHistory(c, Lobby, outcome)
    /\ UNCHANGED checks

NextHistory ==
    \/ /\ \/ \E c \in Conns, token \in {TokenOf(Alice), TokenOf(Bob)} :
                SettingUp /\ Quiet /\ Connect(c, token, EmptyString)
          \/ \E c \in Conns : ConnectUpserted(c, TRUE)
          \/ \E c \in Conns : ConnectFetched(c)
          \/ \E c \in Conns : ConnectReady(c)
          \/ \E task \in BagToSet(sends) : SendResumed(task, "saved")
          \/ sends = EmptyBag /\ Quiet /\ OutsideBurst /\ AdminBlock(Alice)
       /\ UNCHANGED checks
    \/ \E c \in Conns, recipientId \in {Alice, Bob, Evil} :
            StoredSend(c, "directMessage", "direct", recipientId)
    \/ \E c \in Conns : StoredSend(c, "roomMessage", "room", Lobby)
    \/ \E c \in Conns : GlobalBurst(c)
    \/ \E t \in Times : HistoryTick(t)
    \/ HistoryRequest

SpecHistory == Init /\ [][NextHistory]_vars

(***************************************************************************)
(* Vocabulary of the claims about history.                                 *)
(***************************************************************************)
\* the step taken is a history handler
HistoryStep ==
    /\ handled'.event \in HistoryEvents
    /\ now' = now
    /\ vars' # vars

\* the history events among the given ones
HistoryAnswers(events) ==
    {i \in DOMAIN events : events[i].ev \in {"directMessageHistory", "roomHistory"}}

\* the rows of the table that a history request is about
Partition(rows, request, userId) ==
    IF request.event = "getDirectMessageHistory"
    THEN {i \in DOMAIN rows : Between(rows[i], userId, request.target)}
    ELSE {i \in DOMAIN rows : rows[i].room_id = request.target}

LimitOf(request) ==
    IF request.event = "getDirectMessageHistory"
    THEN DirectHistoryLimit ELSE RoomHistoryLimit

\* messages holds each of the most recent Min(limit, n) rows of S once
MostRecentOf(rows, S, limit, messages) ==
    LET ids == {messages[k].id : k \in DOMAIN messages}
    IN  /\ Len(messages) = Min(limit, Cardinality(S))
        /\ Cardinality(ids) = Len(messages)
        /\ ids \subseteq S
        /\ \A k \in DOMAIN messages :
                /\ messages[k].sender_id = rows[messages[k].id].sender_id
                /\ messages[k].recipient_id = rows[messages[k].id].recipient_id
                /\ messages[k].room_id = rows[messages[k].id].room_id
                /\ messages[k].created_at = rows[messages[k].id].created_at
        /\ \A i \in S \ ids, j \in ids :
                rows[i].created_at <= rows[j].created_at

AnsweredHistory ==
    IF handled.event \in HistoryEvents /\ handled.outcome = "ok"
    THEN {emitted[i].messages : i \in HistoryAnswers(emitted)}
    ELSE {}

\* messages is within the limit of the last request and holds the most
\* recent rows of its conversation or room
BoundedMostRecent(messages) ==
    /\ Len(messages) <= LimitOf(handled)
    /\ MostRecentOf(dbMessages,
            Partition(dbMessages, handled, sockets[handled.socket].userId),
            LimitOf(handled), messages)

C26_OnlyCommitCounts ==
    [][/\ CallStep("isRateLimited") =>
            LET before == CountOf(userMessageCounts, ret'.userId,
                                  ret'.messageType)
                after == CountOf(userMessageCounts', ret'.userId,
                                 ret'.messageType)
            IN  /\ after <= before
                /\ after # before =>
                        /\ after = 0
                        /\ WindowExpired(ret'.at, ret'.prior.windowStart,
                                RATE_LIMITS[ret'.messageType].windowMs)
       /\ CallStep("incrementMessageCount") =>
            CountOf(userMessageCounts', ret'.userId, ret'.messageType)
                = CountOf(userMessageCounts, ret'.userId, ret'.messageType) + 1
       /\ \A u \in UserIds, c \in MessageTypes :
            CountOf(userMessageCounts', u, c) > CountOf(userMessageCounts, u, c)
                => /\ CallStep("incrementMessageCount")
                   /\ ret'.userId = u
                   /\ ret'.messageType = c
      ]_vars

\* with one send left in the window, a later check was allowed and left
\* the counter as it found it
C26_Witness ==
    /\ ret.op = "isRateLimited"
    /\ ~ret.limited
    /\ ret.prior.count = RATE_LIMITS[ret.messageType].maxMessages - 1
    /\ ret.at > ret.prior.windowStart
    /\ CounterOfRet = ret.prior

\* the last call was a check that did not find its counter in cooldown
CheckedOutsideCooldown ==
    /\ ret.op = "isRateLimited"
    /\ ~(ret.prior.blockedUntil # NoBlock /\ ret.at < ret.prior.blockedUntil)

(***************************************************************************)
(* C27: a check of a counter that is not in cooldown, made at a time       *)
(* now - windowStart > windowMs, is allowed and leaves count = 0 and       *)
(* windowStart = now, whatever count was, maxMessages included: the user   *)
(* who committed exactly maxMessages sends and waits for the window to     *)
(* expire is not put in cooldown.  At now - windowStart = windowMs the     *)
(* window is kept: count and windowStart stay, and the check is rejected   *)
(* exactly when count has reached maxMessages.                             *)
(***************************************************************************)
C27_WindowResetStrictlyAfter ==
    CheckedOutsideCooldown =>
        LET limit == RATE_LIMITS[ret.messageType]
            age == ret.at - ret.prior.windowStart
        IN  /\ age > limit.windowMs =>
                /\ ~ret.limited
                /\ CounterOfRet = [count |-> 0, windowStart |-> ret.at,
                                   blockedUntil |-> NoBlock]
            /\ age = limit.windowMs =>
                /\ CounterOfRet.windowStart = ret.prior.windowStart
                /\ CounterOfRet.count = ret.prior.count
                /\ ret.limited <=> ret.prior.count >= limit.maxMessages

\* a counter at count = maxMessages, never rejected, was checked one
\* millisecond after its window expired and the check was allowed
C27_Witness ==
    /\ CheckedOutsideCooldown
    /\ ret.prior.count = RATE_LIMITS[ret.messageType].maxMessages
    /\ ret.prior.blockedUntil = NoBlock
    /\ ret.at - ret.prior.windowStart
            = RATE_LIMITS[ret.messageType].windowMs + 1
    /\ ~ret.limited
    /\ CounterOfRet.count = 0

\* the connected sockets that are in room roomId
Subscribers(roomId) ==
    {d \in Conns : IsOpen(d) /\ roomId \in sockets[d].rooms}

(***************************************************************************)
(* C29: the step that completes an accepted room message for room r emits  *)
(* the message exactly once to each connection that is subscribed to r at  *)
(* that moment and to no other connection, and emits nothing else; an      *)
(* accepted global message goes likewise to the subscribers of the         *)
(* reserved room "global".  The sender gets the message only if its own    *)
(* connection is among the subscribers.                                    *)
(***************************************************************************)
C29_RoomFanOutOncePerSubscriber ==
    [][(ResumedStep("saved")
            /\ handled'.event \in {"roomMessage", "globalMessage"}) =>
            LET r == handled'.target
                delivered == Deliveries(emitted')
            IN  /\ handled'.event = "globalMessage" => r = Global
                /\ \A d \in Conns :
                        Cardinality({i \in delivered : emitted'[i].to = d})
                            = IF d \in Subscribers(r) THEN 1 ELSE 0
                /\ \A i \in delivered :
                        /\ emitted'[i].ev = handled'.event
                        /\ emitted'[i].target = r
                        /\ emitted'[i].sent
                /\ Len(emitted') = Cardinality(Subscribers(r))
                /\ (\E i \in delivered : emitted'[i].to = handled'.socket)
                        <=> handled'.socket \in Subscribers(r)]_vars

\* a room message of a connection that had not joined the room was
\* delivered to the other connection, which had, and not to the sender
C29_Witness ==
    /\ handled.event = "roomMessage"
    /\ handled.at = "resumed"
    /\ handled.target = Lobby
    /\ IsOpen(handled.socket)
    /\ Lobby \notin sockets[handled.socket].rooms
    /\ DeliveredTo # {}
    /\ DeliveredTo = Subscribers(Lobby)
    /\ handled.socket \notin DeliveredTo

\* the entries of the two lists carry the usernames of the claim
NamesAsClaimed(lists) ==
    /\ \A e \in lists.onlineUsers :
            /\ e.id \in DOMAIN userSockets
            /\ e.username = OrElse(sockets[userSockets[e.id]].username, e.id)
    /\ \A e \in lists.offlineUsers :
            /\ e.id \in DOMAIN dbUsers
            /\ e.id \notin DOMAIN userSockets
            /\ e.username = OrElse(dbUsers[e.id].username, e.id)
    /\ \A e1, e2 \in lists.onlineUsers \cup lists.offlineUsers :
            e1.id = e2.id => e1 = e2

(***************************************************************************)
(* C30: in the presence view, and in every initialData snapshot sent, the  *)
(* username of each online entry is the display name of the connection     *)
(* registered for that user, or the userId when the connection has none,   *)
(* whatever name is persisted; the username of each offline entry is the   *)
(* persisted name, or the id when none is persisted.  A user has at most   *)
(* one entry.                                                              *)
(***************************************************************************)
C30_PresenceUsernames ==
    /\ NamesAsClaimed(PresenceView)
    /\ SnapshotSent =>
            NamesAsClaimed([onlineUsers |-> emitted[1].onlineUsers,
                            offlineUsers |-> emitted[1].offlineUsers])

\* a user persisted under a name came back on a connection without one
\* (its display name is then the id), the store did not take the upsert,
\* and the snapshot sent lists the user online under the id
C30_Witness ==
    /\ SnapshotSent
    /\ sockets[handled.socket].userId = Alice
    /\ Alice \in DOMAIN dbUsers
    /\ dbUsers[Alice].username = Ann
    /\ Alice \in DOMAIN userSockets
    /\ userSockets[Alice] = handled.socket
    /\ sockets[handled.socket].username = Alice
    /\ [id |-> Alice, username |-> Alice] \in emitted[1].onlineUsers

\* the connections registered for userId after connection c that are still
\* connected
NewerOpen(c, userId) ==
    {d \in RegisteredFor(userId) : d > c /\ sockets[d].state = "open"}

\* the step taken is the given part of the disconnect of a connection
DisconnectStep(at) ==
    /\ handled'.event = "disconnect"
    /\ handled'.at = at
    /\ vars' # vars

(***************************************************************************)
(* C31: when a connection of user u disconnects while a connection that u  *)
(* registered later is still connected, findSocketByUserId(u) resolves to  *)
(* the later connection after the disconnect, the users row of u is not    *)
(* changed and no userOffline is emitted for u.                            *)
(***************************************************************************)
C31_OlderDisconnectKeepsNewer ==
    [][\A at \in {"start", "offline"} :
        DisconnectStep(at) =>
            LET c == handled'.socket
                u == sockets[c].userId
                newer == NewerOpen(c, u)
            IN  newer # {} =>
                    /\ u \in DOMAIN userSockets'
                    /\ userSockets'[u] = Latest(newer)
                    /\ dbUsers' = dbUsers
                    /\ \A i \in DOMAIN emitted' :
                            emitted'[i].ev # "userOffline"]_vars

\* no connection handler and no disconnect handler is waiting for the store
HandlersFinished ==
    /\ Quiet
    /\ \A c \in Conns : sockets[c].disc # "offline"

(***************************************************************************)
(* C32: a registered connection that disconnects is removed from both      *)
(* registry maps, at whatever point of the connection handler the          *)
(* disconnect arrives: once all handlers have finished, neither map holds  *)
(* an entry for a connection that is closed.                               *)
(***************************************************************************)
C32_ClosedConnectionsUnregistered ==
    HandlersFinished =>
        \A c \in Conns :
            sockets[c].state = "closed" =>
                /\ c \notin DOMAIN socketUsers
                /\ \A u \in DOMAIN userSockets : userSockets[u] # c

(***************************************************************************)
(* C33: every message stored under the room id "global", or delivered to   *)
(* the subscribers of the global room, was admitted by the limit of the    *)
(* global class.  The step that stores or delivers such a message counts   *)
(* it in the sender's global counter, and a send event addressed to the    *)
(* global room whose sender would be rejected by a global check starts no  *)
(* insert.                                                                 *)
(***************************************************************************)
C33_GlobalRoomUnderGlobalLimit ==
    [][/\ (/\ ResumedStep("saved")
           /\ handled'.target = Global)
            => LET senderId == dbMessages'[Len(dbMessages')].sender_id
               IN  CountOf(userMessageCounts', senderId, "global")
                    = CountOf(userMessageCounts, senderId, "global") + 1
       /\ (/\ handled'.event \in SendEvents
           /\ handled'.at = "start"
           /\ handled'.target = Global
           /\ vars' # vars
           /\ isRateLimited(userMessageCounts,
                            sockets[handled'.socket].userId, "global",
                            now).limited)
            => sends' = sends]_vars

(***************************************************************************)
(* C34: under any interleaving of admin block requests with the send       *)
(* handlers, no step stores a message or delivers one to a connection      *)
(* while the sender of the message is on the blocklist.                    *)
(***************************************************************************)
C34_NothingFromBlockedSender ==
    [][(/\ handled'.event \in SendEvents
        /\ \/ dbMessages' # dbMessages
           \/ Deliveries(emitted') # {})
        => sockets[handled'.socket].userId \notin BLOCKED_USER_IDS]_vars

\* the connections of user u that passed the middleware and the blocklist
\* test of the connection handler, and are still connected
LiveConnections(u) ==
    {c \in Conns : /\ sockets[c].state = "open"
                   /\ sockets[c].userId = u
                   /\ u \notin BLOCKED_USER_IDS}

\* the users the store or a connection knows
KnownUsers == DOMAIN dbUsers \cup {sockets[c].userId : c \in Conns}

\* no connection or disconnect handler is between two of its steps, and no
\* disconnect(true) of the server is still to take effect
NothingInFlight ==
    /\ HandlersFinished
    /\ \A c \in Conns : sockets[c].state # "closing"

(***************************************************************************)
(* C35: whenever no handler is in flight (the store never fails in this    *)
(* session), a user's row has is_online = true if and only if the user has *)
(* at least one authenticated, non-blocked connection that is still        *)
(* connected.                                                              *)
(***************************************************************************)
C35_OnlineIffConnected ==
    NothingInFlight =>
        \A u \in KnownUsers :
            (u \in DOMAIN dbUsers /\ dbUsers[u].is_online)
                <=> LiveConnections(u) # {}

\* the registry has an entry for user u, in either direction
Registered(u) ==
    \/ u \in DOMAIN userSockets
    \/ \E c \in DOMAIN socketUsers : socketUsers[c] = u

(***************************************************************************)
(* C36: while a user blocked by the admin endpoint is on the blocklist,    *)
(* and once the disconnect the block triggered and every handler have      *)
(* finished, the registry has no entry for the user, whether the block     *)
(* arrived at a connection that was fully set up or at one still inside    *)
(* the connection handler.                                                 *)
(***************************************************************************)
C36_BlockedUserUnregistered ==
    (NothingInFlight /\ Alice \in BLOCKED_USER_IDS) => ~Registered(Alice)

\* getRateLimitedUsers() at time t: the users with a counter in cooldown,
\* as the set of the ids of the array returned
getRateLimitedUsers(counts, t) ==
    {userId \in DOMAIN counts :
        \E messageType \in DOMAIN counts[userId] :
            BlockedNow(counts[userId][messageType], t)}

\* a check of (userId, messageType) at time t would be rejected by the
\* cooldown test of isRateLimited
RejectedByCooldown(counts, userId, messageType, t) ==
    /\ HasCounterIn(counts, userId, messageType)
    /\ BlockedNow(counts[userId][messageType], t)

\* the status entry of a class reports blockedUntil
ReportsBlockedUntil(entry) ==
    /\ "blockedUntil" \in DOMAIN entry
    /\ entry.blockedUntil # Null

(***************************************************************************)
(* C37: for every user u, class c and reading of the clock, if a check of  *)
(* (u, c) would be rejected because of an active cooldown, then the status *)
(* of u reports blockedUntil for c and getRateLimitedUsers lists u.        *)
(***************************************************************************)
C37_StatusAgreesWithEnforcement ==
    \A u \in CounterUsers, c \in MessageTypes :
        RejectedByCooldown(userMessageCounts, u, c, now) =>
            /\ ReportsBlockedUntil(
                    getRateLimitStatus(userMessageCounts, u, now)[c])
            /\ u \in getRateLimitedUsers(userMessageCounts, now)

\* the last step sent its initialData to a connection that is connected
\* and whose user is not blocked
SnapshotReceived ==
    /\ SnapshotSent
    /\ emitted[1].sent
    /\ sockets[handled.socket].userId \notin BLOCKED_USER_IDS

(***************************************************************************)
(* C38: the initialData sent to a connecting, non-blocked user lists that  *)
(* user's own id among the online users and not among the offline users,   *)
(* whatever other connects and disconnects were interleaved with the       *)
(* connection handler.                                                     *)
(***************************************************************************)
C38_SnapshotListsSelfOnline ==
    SnapshotReceived =>
        LET self == sockets[handled.socket].userId
        IN  /\ self \in Ids(emitted[1].onlineUsers)
            /\ self \notin Ids(emitted[1].offlineUsers)

(***************************************************************************)
(* The join driver: a client connects while another sends to the global    *)
(* room, with globalMessage or with roomMessage; the query of the global   *)
(* history may report an error.  checks keeps, for every connection, what  *)
(* its client was handed: the number of rows the store had when the        *)
(* connection was registered, the ids of the rows of its snapshot's        *)
(* globalHistory, and the ids of the rows whose globalMessage event it was *)
(* delivered.                                                              *)
(***************************************************************************)
NoneHanded == [since |-> 0, snapshot |-> {}, live |-> {}]

InitJoin ==
    /\ now = 0
    /\ userMessageCounts = EmptyMap
    /\ BLOCKED_USER_IDS = InitialBlocklist
    /\ userSockets = EmptyMap
    /\ socketUsers = EmptyMap
    /\ sockets = [c \in Conns |-> NoSocket]
    /\ dbUsers = EmptyMap
    /\ dbMessages = << >>
    /\ sends = EmptyBag
    /\ handled = [event |-> "none"]
    /\ emitted = << >>
    /\ ret = [op |-> "none"]
    /\ checks = [c \in Conns |-> NoneHanded]

\* the step registered connection c
RegisteredBy(c) ==
    /\ handled'.event = "connection"
    /\ handled'.at = "start"
    /\ handled'.socket = c
    /\ c \in DOMAIN socketUsers'

\* the ids of the rows of the globalHistory the step delivered to c
SnapshotIds(c) ==
    UNION {{emitted'[i].globalHistory[k].id :
                k \in DOMAIN emitted'[i].globalHistory} :
           i \in {j \in DOMAIN emitted' : /\ emitted'[j].ev = "initialData"
                                          /\ emitted'[j].to = c
                                          /\ emitted'[j].sent}}

\* the step stored a row and delivered its globalMessage event to c
DeliveredLive(c) ==
    /\ Len(dbMessages') > Len(dbMessages)
    /\ \E i \in DOMAIN emitted' :
            /\ emitted'[i].ev = "globalMessage"
            /\ emitted'[i].to = c
            /\ emitted'[i].sent

Handed ==
    checks' =
        [c \in Conns |->
            [since |-> IF RegisteredBy(c) THEN Len(dbMessages)
                       ELSE checks[c].since,
             snapshot |-> checks[c].snapshot \cup SnapshotIds(c),
             live |-> checks[c].live \cup
                        (IF DeliveredLive(c) THEN {Len(dbMessages')}
                         ELSE {})]]

JoinSend(c, event, messageType) ==
    /\ Len(dbMessages) + BagCardinality(sends) < MaxStored
    /\ SendStart(c, event, messageType, Global)

NextJoin ==
    /\ \/ \E c \in Conns, token \in {TokenOf(Alice), TokenOf(Bob)} :
            Connect(c, token, EmptyString)
       \/ \E c \in Conns : ConnectUpserted(c, TRUE)
       \/ \E c \in Conns, outcome \in {"ok", "error"} :
            ConnectFetchedWith(c, outcome)
       \/ \E c \in Conns : ConnectReady(c)
       \/ \E c \in Conns : Disconnect(c)
       \/ \E c \in Conns : DisconnectOffline(c, TRUE)
       \/ \E c \in Conns : JoinSend(c, "globalMessage", "global")
       \/ \E c \in Conns : JoinSend(c, "roomMessage", "room")
       \/ \E task \in BagToSet(sends), outcome \in {"saved", "error"} :
            SendResumed(task, outcome)
    /\ Handed

SpecJoin == InitJoin /\ [][NextJoin]_vars

\* connection c was sent its snapshot, is connected and is in the global
\* room
Joined(c) ==
    /\ IsOpen(c)
    /\ ListenersInstalled(c)
    /\ Global \in sockets[c].rooms

\* the ids of the global rows stored after connection c was registered
GlobalSince(c) ==
    {i \in DOMAIN dbMessages :
        dbMessages[i].room_id = Global /\ i > checks[c].since}

(***************************************************************************)
(* C39: every global message stored after a connection was registered is   *)
(* in the globalHistory of the connection's initialData or was delivered   *)
(* to it as a globalMessage event, for a connection that stayed connected  *)
(* and in the global room (the store never holds more than                 *)
(* GlobalHistoryLimit rows here).                                          *)
(***************************************************************************)
C39_NoGlobalMessageMissed ==
    \A c \in Conns :
        Joined(c) =>
            GlobalSince(c) \subseteq checks[c].snapshot \cup checks[c].live

(***************************************************************************)
(* App.tsx: the client's message list.  A message is the object addMessage *)
(* is given, without its id (Date.now() at the call, which addMessage      *)
(* never reads); a field the object lacks reads as undefined.  A timestamp *)
(* is the Date the client made, or the ISO text of the server's Date.      *)
(***************************************************************************)
DuplicateWindowMs == 2000

DateOf(ms) == <<"Date", ms>>

\* new Date(timestamp).getTime(), of a Date or of its ISO text
getTime(timestamp) == timestamp[2]

Abs(x) == IF x < 0 THEN -x ELSE x

\* the timestamp test of isDuplicate, mutated: <= for <
WithinWindowInclusive(existing, message) ==
    Abs(getTime(existing.timestamp) - getTime(message.timestamp))
        <= DuplicateWindowMs

\* Math.abs(new Date(existing.timestamp).getTime()
\*          - new Date(message.timestamp).getTime()) < 2000
WithinWindow(existing, message) ==
    Abs(getTime(existing.timestamp) - getTime(message.timestamp))
        < DuplicateWindowMs

\* the callback of prevMessages.some(...)
isDuplicateOf(existing, message) ==
    /\ existing.message = message.message
    /\ existing.senderId = message.senderId
    /\ existing.type = message.type
    /\ (IF message.type = "direct"
        THEN existing.recipientId = message.recipientId ELSE TRUE)
    /\ (IF message.type = "room"
        THEN existing.roomId = message.roomId ELSE TRUE)
    /\ WithinWindow(existing, message)

\* the updater addMessage hands to setMessages
addMessage(prevMessages, message) ==
    IF \E i \in DOMAIN prevMessages : isDuplicateOf(prevMessages[i], message)
    THEN prevMessages
    ELSE Append(prevMessages, message)

(***************************************************************************)
(* The client driver: the user of one client sends from the global tab, a  *)
(* direct conversation or a room, and the client receives the server's     *)
(* globalMessage and roomMessage events, in any order.  ret keeps the      *)
(* message list, with the message added last and the list it was added to. *)
(***************************************************************************)
MaxList == 2

ClientUser == Alice

Texts == {<<"h", "i">>, <<"y", "o">>}

\* readings of the clocks, on both sides of the two-second window
Stamps == {0, DuplicateWindowMs - 1, DuplicateWindowMs}

\* where a message goes: the tab of the sender, or the event received
Places ==
    {[type |-> "global", recipientId |-> Null, roomId |-> Null],
     [type |-> "direct", recipientId |-> Bob, roomId |-> Null],
     [type |-> "room", recipientId |-> Null, roomId |-> Lobby],
     [type |-> "room", recipientId |-> Null, roomId |-> Global]}

ClientMessages == IF ret.op = "addMessage" THEN ret.messages ELSE << >>

AddMessage(message) ==
    /\ Len(ClientMessages) <= MaxList
    /\ ret' = [op |-> "addMessage", message |-> message,
               prior |-> ClientMessages,
               messages |-> addMessage(ClientMessages, message)]
    /\ UNCHANGED <<limiterVars, serverVars, checks>>

\* handleSendMessage(message): the local copy, stamped by the client
HandleSendMessage(text, place, ms) ==
    AddMessage([senderId |-> ClientUser, senderUsername |-> ClientUser,
                message |-> text, timestamp |-> DateOf(ms)] @@ place)

\* handleGlobalMessage / handleRoomMessage: the server's event, stamped by
\* the server
HandleMessage(senderId, text, place, ms) ==
    /\ place.type # "direct"
    /\ AddMessage([senderId |-> senderId, senderUsername |-> senderId,
                   message |-> text, timestamp |-> toISOString(ms)]
                  @@ place)

NextClient ==
    \/ \E text \in Texts, place \in Places, ms \in Stamps :
            HandleSendMessage(text, place, ms)
    \/ \E senderId \in {Alice, Bob}, text \in Texts, place \in Places,
          ms \in Stamps : HandleMessage(senderId, text, place, ms)

SpecClient == Init /\ [][NextClient]_vars

\* entry existing matches message on text, sender, type, recipient (for a
\* direct message) and room (for a room message), less than two seconds
\* apart
Matches(existing, message) ==
    /\ existing.message = message.message
    /\ existing.senderId = message.senderId
    /\ existing.type = message.type
    /\ message.type = "direct" => existing.recipientId = message.recipientId
    /\ message.type = "room" => existing.roomId = message.roomId
    /\ existing.timestamp[2] - message.timestamp[2] < 2000
    /\ message.timestamp[2] - existing.timestamp[2] < 2000

MatchesIn(list, message) ==
    {i \in DOMAIN list : Matches(list[i], message)}

\* the message added last is the server's copy of a global or room message
\* of which the list held the client's own copy
EchoOfLocalCopy ==
    /\ ret.op = "addMessage"
    /\ ret.message.type \in {"global", "room"}
    /\ ret.message.timestamp[1] = "ISO-8601"
    /\ \E i \in MatchesIn(ret.prior, ret.message) :
            ret.prior[i].timestamp[1] = "Date"

(***************************************************************************)
(* C40: addMessage leaves the list as it was when an entry matches the     *)
(* message on text, sender, type, recipient (direct) or room (room) with   *)
(* timestamps less than 2 seconds apart, and appends the message           *)
(* otherwise; so the server's copy of a global or room message whose local *)
(* copy is in the list adds no entry, and adding a message a second time   *)
(* changes nothing.                                                        *)
(***************************************************************************)
C40_AddMessageDeduplicates ==
    ret.op = "addMessage" =>
        /\ ret.messages =
                IF MatchesIn(ret.prior, ret.message) # {} THEN ret.prior
                ELSE Append(ret.prior, ret.message)
        /\ EchoOfLocalCopy =>
                /\ ret.messages = ret.prior
                /\ \A i \in DOMAIN ret.messages :
                        ret.messages[i] # ret.message
        /\ addMessage(ret.messages, ret.message) = ret.messages

\* the server's copy arrived 1999 ms after the local copy of a room message
\* and was not added; the list holds another message as well
C40_Witness ==
    /\ EchoOfLocalCopy
    /\ ret.message.type = "room"
    /\ Len(ret.prior) = 2
    /\ Len(ret.messages) = 2
    /\ \E i \in MatchesIn(ret.prior, ret.message) :
            Abs(ret.prior[i].timestamp[2] - ret.message.timestamp[2]) = 1999
====
